---- MODULE Spec2Model ----
(***************************************************************************)
(* Model of the deployment orchestrator (DeploymentOrchestrator.deploy),   *)
(* the remote execution client (SSHClient.connect, execute_commands), the  *)
(* health verifier (HealthChecker.wait_for_healthy) and the repository     *)
(* layer they write through.  A behaviour is one call of one entry point:  *)
(* deploy, connect (as wait_for_ssh calls it), wait_for_healthy or         *)
(* execute_commands; a deploy may start on the tables an earlier deploy    *)
(* left.  A fifth kind of behaviour is the deploy calls of several         *)
(* requests running at once, each in its thread, reduced to what they do   *)
(* to the tables.                                                          *)
(***************************************************************************)
EXTENDS Integers, Sequences, FiniteSets, TLC

(* ---------------------------------------------------------------------- *)
(* Bounds of the exploration                                               *)
(* ---------------------------------------------------------------------- *)
\* collaborator faults (raised exceptions, commands failing) per behaviour
MaxFaults == 2
\* largest max_retries explored for a direct call of wait_for_healthy
MaxRetries == 3
\* a host that boots fails at most this many attempts before sshd answers
MaxBootFails == 1
\* commands in one execute_commands call
MaxCmds == 3

(* ---------------------------------------------------------------------- *)
(* Program constants                                                       *)
(* ---------------------------------------------------------------------- *)
DEFAULT_MAX_WAIT == 300
DEFAULT_RETRY_INTERVAL == 5
DEPLOY_MAX_WAIT == 180
DEPLOY_RETRY_INTERVAL == 5
CONNECT_TIMEOUT == 20
HEALTH_CHECK_RETRIES == 5
HEALTH_CHECK_INTERVAL == 10
DOCKER_HOST_PORT == 8000

NoTime == -1
NoMsg == <<>>
NoDep == 0

(* ---------------------------------------------------------------------- *)
(* Persistence: the tables a session reads and writes                      *)
(* ---------------------------------------------------------------------- *)
EmptyStore ==
  [apps |-> <<>>, deps |-> <<>>, steps |-> <<>>, logs |-> <<>>, ec2 |-> <<>>]

\* values of str(uuid.uuid4()), character by character: UUID_A and UUID_B are
\* different values that agree on their first 8 characters
UUID_A ==
  <<"8", "0", "2", "9", "f", "e", "0", "e", "-", "4", "b", "1", "d", "-", "4", "c", "6", "a",
    "-", "9", "f", "2", "e", "-", "0", "a", "1", "b", "2", "c", "3", "d", "4", "e", "5", "f">>
UUID_B ==
  <<"8", "0", "2", "9", "f", "e", "0", "e", "-", "7", "7", "a", "a", "-", "4", "e", "1", "0",
    "-", "8", "c", "3", "b", "-", "5", "f", "4", "e", "3", "d", "2", "c", "1", "b", "0", "a">>
UUID_C ==
  <<"c", "4", "1", "d", "9", "a", "7", "2", "-", "1", "e", "5", "b", "-", "4", "f", "0", "c",
    "-", "a", "6", "d", "8", "-", "9", "b", "8", "a", "7", "c", "6", "d", "5", "e", "4", "f">>

\* the value uuid.uuid4() returns for the short_id default of the next
\* Deployment row: random, and never one it has returned before. The first
\* row gets UUID_A (with no other row, any value is like any other).
Uuid4(s) == IF s.deps = <<>> THEN {UUID_A} ELSE {UUID_B, UUID_C}

\* _short_id: str(uuid.uuid4())[:8]
short_id(u) == SubSeq(u, 1, 8)

\* ApplicationRepository.get_by_github_url: id of the application row, 0 if none
get_by_github_url(s, url) ==
  IF \E i \in DOMAIN s.apps : s.apps[i].github_url = url
  THEN CHOOSE i \in DOMAIN s.apps :
         /\ s.apps[i].github_url = url
         /\ \A j \in DOMAIN s.apps : s.apps[j].github_url = url => i <= j
  ELSE 0

\* ApplicationRepository._make_slug of the name taken from the repository URL
make_slug(url) == <<url>>

\* the slug create settles on: the name's slug, with the first four
\* characters of a fresh uuid appended when a row already has that slug
unique_slug(s, slug, u) ==
  IF \E i \in DOMAIN s.apps : s.apps[i].slug = slug
  THEN slug \o <<"-">> \o SubSeq(u, 1, 4)
  ELSE slug

\* Application(...); db.add(app); db.flush()
insert_application(s, url, slug) ==
  [s EXCEPT !.apps = Append(@, [github_url |-> url, slug |-> slug,
                                status |-> "pending",
                                last_deployed_at |-> NoTime,
                                container_name |-> "None"])]

\* ApplicationRepository.create
create_application(s, url, u) ==
  insert_application(s, url, unique_slug(s, make_slug(url), u))

\* a get_or_create that never looks for the existing row
get_or_create_always(s, url, u) == <<create_application(s, url, u), Len(s.apps) + 1>>

\* ApplicationRepository.get_or_create: <<store, application id>>
get_or_create(s, url, u) ==
  IF get_by_github_url(s, url) # 0
  THEN <<s, get_by_github_url(s, url)>>
  ELSE <<create_application(s, url, u), Len(s.apps) + 1>>

\* DeploymentRepository.create
create_deployment(s, app, t, u) ==
  [s EXCEPT !.deps = Append(@, [application_id |-> app,
                                short_id |-> short_id(u),
                                status |-> "in_progress",
                                started_at |-> t,
                                completed_at |-> NoTime,
                                duration_seconds |-> NoTime,
                                error_message |-> NoMsg,
                                deployment_url |-> NoMsg])]

\* as if started_at were never set
duration_of_unset(s, d, t) == NoTime

\* duration computed by mark_success / mark_failed
duration_of(s, d, t) ==
  IF d \in DOMAIN s.deps /\ s.deps[d].started_at # NoTime
  THEN t - s.deps[d].started_at ELSE NoTime

\* DeploymentRepository.mark_success
mark_success(s, d, url, t) ==
  IF d \in DOMAIN s.deps
  THEN [s EXCEPT !.deps[d].status = "success",
                 !.deps[d].completed_at = t,
                 !.deps[d].duration_seconds = duration_of(s, d, t),
                 !.deps[d].deployment_url = url]
  ELSE s

\* a mark_failed that records the message but leaves the status alone
mark_failed_keeps_status(s, d, msg, t) ==
  IF d \in DOMAIN s.deps
  THEN [s EXCEPT !.deps[d].error_message = msg]
  ELSE s

\* mark_failed storing what its log line shows, the message cut short
mark_failed_truncates(s, d, msg, t) ==
  IF d \in DOMAIN s.deps
  THEN [s EXCEPT !.deps[d].status = "failed",
                 !.deps[d].completed_at = t,
                 !.deps[d].error_message = SubSeq(msg, 1, 1)]
  ELSE s

\* DeploymentRepository.mark_failed
mark_failed(s, d, msg, t) ==
  IF d \in DOMAIN s.deps
  THEN [s EXCEPT !.deps[d].status = "failed",
                 !.deps[d].completed_at = t,
                 !.deps[d].duration_seconds = duration_of(s, d, t),
                 !.deps[d].error_message = msg]
  ELSE s

\* DeploymentRepository.add_step
add_step(s, d, n, name, status, msg) ==
  [s EXCEPT !.steps = Append(@, [deployment_id |-> d, step_number |-> n,
                                 step_name |-> name, status |-> status,
                                 message |-> msg])]

\* DeploymentRepository.add_log
add_log(s, d, msg, level) ==
  [s EXCEPT !.logs = Append(@, [deployment_id |-> d, message |-> msg,
                                log_level |-> level])]

\* EC2InstanceRepository.create followed by link_application
create_ec2(s, iid, app, port) ==
  [s EXCEPT !.ec2 = Append(@, [instance_id |-> iid, status |-> "running",
                               application_id |-> app, host_port |-> port])]

\* ApplicationRepository.update_last_deployed
update_last_deployed(s, app, t) ==
  [s EXCEPT !.apps[app].last_deployed_at = t]

\* the query(Application).update of the container details (status active)
activate_application(s, app, cname) ==
  [s EXCEPT !.apps[app].status = "active", !.apps[app].container_name = cname]

\* a rollback that also discards the Steps already committed
rollback_drops_steps(committed, view) == [committed EXCEPT !.steps = <<>>]

\* Session.rollback: the session's view falls back to what is committed
rollback(committed, view) == committed

\* the Steps of deployment d, in table order
StepsOf(s, d) == SelectSeq(s.steps, LAMBDA r : r.deployment_id = d)
LogsOf(s, d) == SelectSeq(s.logs, LAMBDA r : r.deployment_id = d)


(* ---------------------------------------------------------------------- *)
(* Messages and events                                                     *)
(* ---------------------------------------------------------------------- *)
\* a message is a sequence of text fragments; f"{a}{b}" is a \o b
Event(step, message, status) ==
  [step |-> step, message |-> message, status |-> status]

DBError == <<"database error">>
SinkError == <<"progress sink error">>
ClientError == <<"provider ClientError">>
CloseError == <<"channel close error">>
AuthError == <<"Authentication failed.">>
NoTenantError == <<"No default tenant found. Run 'flask init-db' or restart Flask.">>
INSTANCE_ID == "i-1"
PUBLIC_IP == "1.2.3.4"

\* update_progress: level of the LogLine written for an event
log_level(status) == IF status = "error" THEN "ERROR" ELSE "INFO"

\* update_progress: text of the LogLine written for an event
log_message(step, message) == <<"[", step, "] ">> \o message

\* HealthChecker.wait_for_healthy: the two messages it returns
healthy_msg(attempt) ==
  <<"Application is healthy after ", ToString(attempt), " attempts">>
unhealthy_msg(max_retries) ==
  <<"Application failed to become healthy after ", ToString(max_retries), " attempts">>

\* SSHClient.connect: message of the TimeoutError
timeout_msg(max_wait) ==
  <<"SSH not available after ", ToString(max_wait),
    "s. Check security groups and instance logs.">>

(* ---------------------------------------------------------------------- *)
(* The body of deploy as a sequence of statements.  phase is the           *)
(* step_number the enclosing section passes to add_step (0 before the      *)
(* Deployment exists, 10 for finalize); ng marks statements guarded by     *)
(* config.ENABLE_NGINX.                                                    *)
(* ---------------------------------------------------------------------- *)
Stmt(op, phase, ng, a, b, st) ==
  [op |-> op, phase |-> phase, ng |-> ng, a |-> a, b |-> b, st |-> st]
Progress(phase, ng, step, message, status) ==
  Stmt("progress", phase, ng, step, message, status)
Command(phase, ng, name, prefix) == Stmt("cmd", phase, ng, name, prefix, "")
Step(phase, ng, name, message) == Stmt("step", phase, ng, name, message, "success")
Plain(op, phase, ng, a) == Stmt(op, phase, ng, a, <<>>, "")

Program == <<
  Plain("tenant", 0, FALSE, ""),
  Progress(0, FALSE, "Validation", <<"Validating GitHub URL">>, "in_progress"),
  Plain("validate_url", 0, FALSE, ""),
  Progress(0, FALSE, "Validation", <<"GitHub URL validated">>, "success"),
  Progress(0, FALSE, "Validation", <<"Validating configuration">>, "in_progress"),
  Plain("validate_cfg", 0, FALSE, ""),
  Progress(0, FALSE, "Validation", <<"Configuration validated">>, "success"),
  Plain("get_or_create", 0, FALSE, ""),
  Plain("create_deployment", 0, FALSE, ""),
  \* Step 3: Create EC2 instance
  Progress(1, FALSE, "EC2 Creation", <<"Creating EC2 instance">>, "in_progress"),
  Plain("create_instance", 1, FALSE, ""),
  Plain("persist_instance", 1, FALSE, ""),
  Progress(1, FALSE, "EC2 Creation", <<"Instance ", INSTANCE_ID, " created">>, "success"),
  \* Step 4: SSH + Docker
  Progress(2, FALSE, "Docker Installation",
           <<"Waiting for SSH and installing Docker">>, "in_progress"),
  Plain("connect", 2, FALSE, "docker"),
  Command(2, FALSE, "install_docker", "Failed to install Docker: "),
  Step(2, FALSE, "Docker Installed", NoMsg),
  Progress(2, FALSE, "Docker Installation", <<"Docker installed">>, "success"),
  \* Step 4.5: NGINX (optional)
  Progress(3, TRUE, "NGINX Installation",
           <<"Installing NGINX reverse proxy">>, "in_progress"),
  Plain("connect", 3, TRUE, "nginx"),
  Command(3, TRUE, "install_nginx", "Failed to install NGINX: "),
  Step(3, TRUE, "NGINX Installed", NoMsg),
  Progress(3, TRUE, "NGINX Installation", <<"NGINX installed">>, "success"),
  \* Step 5: Clone repository
  Progress(4, FALSE, "Repository Clone", <<"Cloning GitHub repository">>, "in_progress"),
  Plain("connect", 4, FALSE, "github"),
  Command(4, FALSE, "clone_repository", "Failed to clone repository: "),
  Step(4, FALSE, "Repository Cloned", <<"repo_path">>),
  Progress(4, FALSE, "Repository Clone", <<"Cloned to ", "repo_path">>, "success"),
  \* Step 6: Verify project files
  Progress(5, FALSE, "Project Validation",
           <<"Verifying project structure">>, "in_progress"),
  Command(5, FALSE, "verify_project_files", "Missing required files: "),
  Step(5, FALSE, "Project Structure Verified", NoMsg),
  Progress(5, FALSE, "Project Validation",
           <<"Project structure validated">>, "success"),
  \* Step 7: Build Docker image
  Progress(6, FALSE, "Docker Build", <<"Building Docker image">>, "in_progress"),
  Command(6, FALSE, "build_image", "Failed to build Docker image: "),
  Step(6, FALSE, "Docker Image Built", <<"image_name">>),
  Progress(6, FALSE, "Docker Build", <<"Image built: ", "image_name">>, "success"),
  \* Step 8: Run container
  Progress(7, FALSE, "Container Deployment",
           <<"Starting Docker container">>, "in_progress"),
  Command(7, FALSE, "run_container", "Failed to start container: "),
  Plain("container_step", 7, FALSE, "Container Started"),
  Progress(7, FALSE, "Container Deployment",
           <<"Container running: ", "container_name">>, "success"),
  \* Step 8.5: Configure NGINX
  Progress(8, TRUE, "NGINX Configuration",
           <<"Configuring NGINX reverse proxy">>, "in_progress"),
  Command(8, TRUE, "create_site_config", "NGINX config failed: "),
  Command(8, TRUE, "enable_site", "NGINX enable failed: "),
  Command(8, TRUE, "reload_nginx", "NGINX reload failed: "),
  Step(8, TRUE, "NGINX Configured", NoMsg),
  Progress(8, TRUE, "NGINX Configuration", <<"NGINX configured">>, "success"),
  \* Step 9: Health check
  Progress(9, FALSE, "Health Check", <<"Performing health checks">>, "in_progress"),
  Plain("wait_for_healthy", 9, FALSE, ""),
  Plain("health_step", 9, FALSE, ""),
  Plain("health_progress", 9, FALSE, ""),
  Plain("commit", 9, FALSE, ""),
  \* Step 10: Finalize
  Plain("finalize", 10, FALSE, ""),
  Plain("close", 10, FALSE, "docker"),
  Plain("close", 10, FALSE, "github"),
  Plain("close", 10, TRUE, "nginx"),
  Progress(10, FALSE, "Deployment Complete",
           <<"Application deployed successfully">>, "success"),
  Plain("return", 10, FALSE, "")
>>

\* the next statement when a section goes on to the next one without
\* recording its Step
NextStmt_skips_steps(i, nginx) ==
  CHOOSE j \in (i + 1) .. (Len(Program) + 1) :
    /\ j \in DOMAIN Program => Program[j].op # "step" /\ (Program[j].ng => nginx)
    /\ \A k \in (i + 1) .. (j - 1) : Program[k].op = "step" \/ (Program[k].ng /\ ~nginx)

\* the next statement when the ENABLE_NGINX guards are missing
NextStmt_unguarded(i, nginx) == i + 1

\* the statement executed after statement i: nginx statements are skipped
\* when config.ENABLE_NGINX is false
RECURSIVE NextStmt(_, _)
NextStmt(i, nginx) ==
  IF i + 1 > Len(Program) THEN i + 1
  ELSE IF Program[i + 1].ng /\ ~nginx THEN NextStmt(i + 1, nginx)
  ELSE i + 1


(* ---------------------------------------------------------------------- *)
(* State                                                                   *)
(* ---------------------------------------------------------------------- *)
VARIABLES
  caller,       \* the entry point called: "deploy", "connect",
                \* "wait_for_healthy", "execute_commands", or "deployments"
                \* for the concurrent deploy calls
  pc,           \* position of the call
  ip,           \* deploy: index in Program of the statement to execute next
  input,        \* deploy: github_url and host_port as given by the caller
  cfg,          \* config: ENABLE_NGINX
  tenant,       \* whether the default tenant row exists
  db,           \* the committed tables
  sess,         \* the tables as the deployment's session sees them (flushed writes)
  now,          \* wall clock, seconds
  dep,          \* deploy: the local dep (id of the Deployment object, NoDep for None)
  application,  \* deploy: id of the Application object
  result,       \* deploy: the result dict
  sink,         \* events the progress callback accepted, in order
  exc,          \* message of the exception being handled
  faults,       \* faults raised so far
  cloud,        \* provider: state of the instances created
  ssh,          \* the paramiko client held by each SSHClient
  bk,           \* deploy: how the failure bookkeeping ended ("none" before it)
  cn,           \* locals of the running SSHClient.connect
  hc,           \* locals of the running HealthChecker.wait_for_healthy
  ex,           \* locals of the running SSHClient.execute_commands
  wk,           \* concurrent deploys: the locals and the session of each thread
  groups,       \* provider: the security group of the platform, "none" until
                \* created, "created" until its ingress rules are set
  gh            \* locals of the running GitHubManager.clone_repository and
                \* what the remote answers

vars == <<caller, pc, ip, input, cfg, tenant, db, sess, now, dep, application,
          result, sink, exc, faults, cloud, ssh, bk, cn, hc, ex, wk, groups, gh>>

Clients == {"docker", "nginx", "github", "ssh"}

\* classes of exception a failed paramiko connect raises (other than
\* authentication): socket.timeout, ConnectionRefusedError, socket.gaierror,
\* SSHException/socket.error/EOFError told apart by their text, and anything
\* that is none of these ("unexpected")
ErrKinds == {"socket.timeout", "ConnectionRefusedError", "socket.gaierror",
             "timed out", "refused", "unreachable", "banner", "unexpected"}

\* SSHClient._classify_ssh_error
classify_ssh_error(kind) ==
  CASE kind = "socket.timeout" -> "connection timeout"
    [] kind = "ConnectionRefusedError" -> "SSH daemon not started"
    [] kind = "socket.gaierror" -> "DNS resolution failed"
    [] kind = "timed out" -> "connection timeout"
    [] kind = "refused" -> "connection refused"
    [] kind = "unreachable" -> "network unreachable"
    [] OTHER -> "SSH not ready"

Never == 0 - 1
\* a host: the number of attempts that fail before sshd answers (Never: it
\* never does), how they fail, how long a failing attempt takes, and whether
\* the credentials are accepted once sshd answers
Hosts(kinds, durs) ==
  [upAfter : (0 .. MaxBootFails) \cup {Never}, kind : kinds, dur : durs,
   auth : BOOLEAN]

IdleHost == [upAfter |-> 0, kind |-> "refused", dur |-> 0, auth |-> TRUE]

IdleConn ==
  [who |-> "ssh", max_wait |-> 0, retry_interval |-> 1, cb |-> FALSE,
   attempt |-> 0, start_time |-> 0, made |-> 0, sleeps |-> 0, reported |-> 0,
   established |-> 0, authSeen |-> 0, host |-> IdleHost, ret |-> "none",
   err |-> NoMsg]

NewConn(who, max_wait, retry_interval, cb, host) ==
  [IdleConn EXCEPT !.who = who, !.max_wait = max_wait,
                   !.retry_interval = retry_interval, !.cb = cb, !.host = host]

\* port is the port of HealthChecker(public_ip, port), 0 while there is no
\* checker
IdleHealth ==
  [port |-> 0, max_retries |-> 0, retry_interval |-> 0, attempt |-> 0,
   checks |-> 0, sleeps |-> 0, unhealthy |-> 0, ret |-> "none", msg |-> NoMsg]

NewHealth(max_retries, retry_interval) ==
  [IdleHealth EXCEPT !.max_retries = max_retries,
                     !.retry_interval = retry_interval]

NewResult ==
  [deployment_id |-> NoMsg, success |-> FALSE, steps |-> <<>>,
   error |-> NoMsg, instance_id |-> "None", url |-> NoMsg, returned |-> FALSE]

\* a store left by an earlier deployment of the same repository that failed
\* while installing Docker
PriorStore ==
  LET L(s, step, m) == add_log(s, 1, log_message(step, m), "INFO")
      s1 == create_deployment(get_or_create(EmptyStore, "u1", UUID_C)[1], 1, 0, UUID_A)
      s2 == L(s1, "EC2 Creation", <<"Creating EC2 instance">>)
      s3 == add_step(create_ec2(s2, INSTANCE_ID, 1, DOCKER_HOST_PORT), 1,
                     1, "EC2 Instance Created", "success",
                     <<"id=", INSTANCE_ID, " ip=", PUBLIC_IP>>)
      s4 == L(s3, "EC2 Creation", <<"Instance ", INSTANCE_ID, " created">>)
      s5 == L(s4, "Docker Installation", <<"Waiting for SSH and installing Docker">>)
      s6 == mark_failed(s5, 1, <<"Failed to install Docker: ", "install_docker">>, 0)
      s7 == L(s6, "Cleanup", <<"Cleaning up failed deployment">>)
  IN L(s7, "Cleanup", <<"Cleanup noted (instance kept for debugging)">>)

\* format_deployment_url / the proxy URL
deployment_url(nginx) ==
  IF nginx THEN <<"http://", PUBLIC_IP, "/">>
  ELSE <<"http://", PUBLIC_IP, ":", ToString(DOCKER_HOST_PORT)>>

\* the tables after statements i, i+1, ... of Program have run for Deployment
\* d of Application app with no fault, proxying disabled and a healthy first
\* check
RECURSIVE Persisted(_, _, _, _)
Persisted(s, app, d, i) ==
  IF i > Len(Program) THEN s
  ELSE LET st == Program[i]
           s1 == CASE st.ng -> s
                   [] st.op = "progress" ->
                        add_log(s, d, log_message(st.a, st.b), log_level(st.st))
                   [] st.op = "persist_instance" ->
                        add_step(create_ec2(s, INSTANCE_ID, app, DOCKER_HOST_PORT),
                                 d, 1, "EC2 Instance Created", "success",
                                 <<"id=", INSTANCE_ID, " ip=", PUBLIC_IP>>)
                   [] st.op = "step" -> add_step(s, d, st.phase, st.a, st.st, st.b)
                   [] st.op = "container_step" ->
                        add_step(activate_application(s, app, "container_name"),
                                 d, 7, st.a, "success", <<"container_name">>)
                   [] st.op = "health_step" ->
                        add_step(s, d, 9, "Health Check Passed", "success", NoMsg)
                   [] st.op = "health_progress" ->
                        add_log(s, d, log_message("Health Check",
                                                  <<"Application is healthy">>), "INFO")
                   [] st.op = "finalize" ->
                        update_last_deployed(
                          mark_success(s, d, deployment_url(FALSE), 0), app, 0)
                   [] OTHER -> s
       IN Persisted(s1, app, d, i + 1)

\* a store left by an earlier deployment of the same repository that succeeded
PriorSuccessStore ==
  Persisted(create_deployment(get_or_create(EmptyStore, "u1", UUID_C)[1], 1, 0, UUID_A),
            1, 1, 10)

\* a store left by an earlier deployment of the same repository that failed
\* creating its instance and whose failure bookkeeping failed too: the
\* Deployment is in_progress for good
PriorStuckStore ==
  add_log(create_deployment(get_or_create(EmptyStore, "u1", UUID_C)[1], 1, 0, UUID_A),
          1, log_message("EC2 Creation", <<"Creating EC2 instance">>), "INFO")

Urls == {"u1", "invalid"}

\* what a remote command does: the channel fails under it (exec_command or
\* recv_exit_status raises), or it ends with an exit code
RemoteCommands ==
  {[raises |-> FALSE, exit_code |-> 0], [raises |-> FALSE, exit_code |-> 1],
   [raises |-> TRUE, exit_code |-> 0]}

CommandLists == UNION {[1 .. n -> RemoteCommands] : n \in 0 .. MaxCmds}

IdleExec ==
  [commands |-> <<>>, stop_on_error |-> TRUE, connected |-> FALSE,
   started |-> 0, ran |-> <<>>, results |-> <<>>, broke |-> FALSE,
   ret |-> "none", err |-> NoMsg]

\* how "git clone -b <branch>" ends on the remote host: exit code 0, a
\* non-zero exit code with one of git's messages on stderr, or
\* execute_command raising
CloneOutcomes == {"ok", "no_branch", "no_repository", "no_access", "raises"}

\* clone_repository's locals (branch, the clone commands issued so far, by
\* branch, and what it returned) with what surrounds the call: whether
\* install_git succeeds and how a clone of main, and of any other branch, ends;
\* missing_files is the list verify_project_files handed to deploy
NewClone(branch, git, main, other) ==
  [branch |-> branch, install_git |-> git, main |-> main, other |-> other,
   clones |-> <<>>, ret |-> "none", msg |-> NoMsg, missing_files |-> <<>>]

IdleClone == NewClone("main", TRUE, "ok", "ok")

\* the threads POST /api/deploy has started, one deploy call each
NumWorkers == 2
Workers == 1 .. NumWorkers

\* the locals of one deploy call that matter to the tables (application, dep,
\* the slug create works with, the exception being handled, result['success'])
\* and pend, the writes its session has flushed and not committed
NewWorker ==
  [pc |-> "lookup", application |-> 0, dep |-> NoDep, slug |-> NoMsg,
   pend |-> <<>>, error |-> NoMsg, success |-> FALSE, sg_id |-> "None"]

IdleWorker == [NewWorker EXCEPT !.pc = "idle"]

InitCommon ==
  /\ ip = 1
  /\ now = 0
  /\ dep = NoDep
  /\ application = 0
  /\ result = NewResult
  /\ sink = <<>>
  /\ exc = NoMsg
  /\ faults = 0
  /\ cloud = <<>>
  /\ ssh = [c \in Clients |-> "none"]
  /\ bk = "none"
  /\ sess = db

\* deploy(github_url, None, None, host_port, progress_callback)
InitDeploy ==
  /\ caller = "deploy"
  /\ pc = "run"
  /\ input \in [github_url : Urls, port_ok : BOOLEAN]
  /\ cfg \in [ENABLE_NGINX : BOOLEAN]
  /\ tenant \in BOOLEAN
  /\ db \in {EmptyStore, PriorStore, PriorSuccessStore, PriorStuckStore}
  /\ cn = IdleConn
  /\ hc = IdleHealth
  /\ ex = IdleExec
  /\ wk = [w \in Workers |-> IdleWorker]
  /\ groups = "none"
  /\ gh = IdleClone

\* wait_for_ssh(hostname, ...): SSHClient(hostname).connect(300, 5, callback)
InitConnect ==
  /\ caller = "connect"
  /\ pc = "ssh_begin"
  /\ input = [github_url |-> "none", port_ok |-> TRUE]
  /\ cfg = [ENABLE_NGINX |-> FALSE]
  /\ tenant = TRUE
  /\ db = EmptyStore
  /\ \E cb \in BOOLEAN, h \in Hosts(ErrKinds, {0, CONNECT_TIMEOUT}) :
       cn = NewConn("ssh", DEFAULT_MAX_WAIT, DEFAULT_RETRY_INTERVAL, cb, h)
  /\ hc = IdleHealth
  /\ ex = IdleExec
  /\ wk = [w \in Workers |-> IdleWorker]
  /\ groups = "none"
  /\ gh = IdleClone

\* HealthChecker(ip, port).wait_for_healthy(max_retries, retry_interval)
InitHealth ==
  /\ caller = "wait_for_healthy"
  /\ pc = "health_loop"
  /\ input = [github_url |-> "none", port_ok |-> TRUE]
  /\ cfg = [ENABLE_NGINX |-> FALSE]
  /\ tenant = TRUE
  /\ db = EmptyStore
  /\ cn = IdleConn
  /\ \E m \in 1 .. MaxRetries :
       hc = [NewHealth(m, HEALTH_CHECK_INTERVAL) EXCEPT !.port = DOCKER_HOST_PORT]
  /\ ex = IdleExec
  /\ wk = [w \in Workers |-> IdleWorker]
  /\ groups = "none"
  /\ gh = IdleClone

\* SSHClient(hostname).execute_commands(commands, stop_on_error), with or
\* without a client from an earlier connect
InitExec ==
  /\ caller = "execute_commands"
  /\ pc = "exec_loop"
  /\ input = [github_url |-> "none", port_ok |-> TRUE]
  /\ cfg = [ENABLE_NGINX |-> FALSE]
  /\ tenant = TRUE
  /\ db = EmptyStore
  /\ cn = IdleConn
  /\ hc = IdleHealth
  /\ \E cs \in CommandLists, stop \in BOOLEAN, conn \in BOOLEAN :
       ex = [IdleExec EXCEPT !.commands = cs, !.stop_on_error = stop,
                             !.connected = conn]
  /\ wk = [w \in Workers |-> IdleWorker]
  /\ groups = "none"
  /\ gh = IdleClone

\* POST /api/deploy, once per worker and at the same time, for one repository:
\* each request starts Thread(target=run_deployment) on the shared
\* orchestrator; the tables are empty or hold an earlier deployment of it
InitWorkers ==
  /\ caller = "deployments"
  /\ pc = "threads"
  /\ input = [github_url |-> "u1", port_ok |-> TRUE]
  /\ cfg = [ENABLE_NGINX |-> FALSE]
  /\ tenant = TRUE
  /\ db \in {EmptyStore, PriorStore}
  /\ cn = IdleConn
  /\ hc = IdleHealth
  /\ ex = IdleExec
  /\ wk = [w \in Workers |-> NewWorker]
  /\ groups \in {"none", "configured"}
  /\ gh = IdleClone

\* GitHubManager(host).clone_repository(repo_url, branch=...) on a connected
\* manager
InitClone ==
  /\ caller = "clone_repository"
  /\ pc = "clone_begin"
  /\ input = [github_url |-> "u1", port_ok |-> TRUE]
  /\ cfg = [ENABLE_NGINX |-> FALSE]
  /\ tenant = TRUE
  /\ db = EmptyStore
  /\ cn = IdleConn
  /\ hc = IdleHealth
  /\ ex = IdleExec
  /\ wk = [w \in Workers |-> IdleWorker]
  /\ groups = "none"
  /\ \E b \in {"main", "master", "develop"}, git \in BOOLEAN,
        m \in CloneOutcomes, o \in CloneOutcomes :
       gh = NewClone(b, git, m, o)

Init ==
  (InitDeploy \/ InitConnect \/ InitHealth \/ InitExec \/ InitWorkers \/ InitClone)
  /\ InitCommon

(* ---------------------------------------------------------------------- *)
(* deploy: helpers                                                         *)
(* ---------------------------------------------------------------------- *)
Cur == Program[ip]
At(op) == caller = "deploy" /\ pc = "run" /\ ip \in DOMAIN Program /\ Cur.op = op

\* fall through to the next statement
Goto(i) == pc' = "run" /\ ip' = i /\ exc' = exc
Continue == Goto(NextStmt(ip, cfg.ENABLE_NGINX))
\* an exception leaves the try block: the handler at "except Exception as e"
Raise(msg) == pc' = "except" /\ ip' = ip /\ exc' = msg

Fault == faults < MaxFaults /\ faults' = faults + 1
NoFault == faults' = faults

\* update_progress calling the callback first and writing the LogLine after
update_progress_emits_first(step, message, status, onOk, onSinkRaise, onDbRaise) ==
  LET ev == Event(step, message, status)
      s1 == add_log(sess, dep, log_message(step, message), log_level(status))
  IN /\ result' = [result EXCEPT !.steps = Append(@, ev)]
     /\ \/ /\ sink' = sink /\ Fault /\ onSinkRaise
           /\ sess' = sess /\ db' = db
        \/ /\ sink' = Append(sink, ev)
           /\ \/ /\ NoFault /\ onOk
                 /\ sess' = IF dep # NoDep THEN s1 ELSE sess
                 /\ db' = IF dep # NoDep THEN s1 ELSE db
              \/ /\ dep # NoDep /\ Fault /\ onDbRaise
                 /\ sess' = db /\ db' = db

\* update_progress(step, message, status): append to result['steps'], write
\* and commit the LogLine when the Deployment exists, then call the callback
update_progress(step, message, status, onOk, onSinkRaise, onDbRaise) ==
  LET ev == Event(step, message, status)
      s1 == add_log(sess, dep, log_message(step, message), log_level(status))
  IN /\ result' = [result EXCEPT !.steps = Append(@, ev)]
     /\ \/ /\ sess' = IF dep # NoDep THEN s1 ELSE sess
           /\ db' = IF dep # NoDep THEN s1 ELSE db
           /\ \/ sink' = Append(sink, ev) /\ NoFault /\ onOk
              \/ sink' = sink /\ Fault /\ onSinkRaise
        \/ /\ dep # NoDep
           /\ Fault
           /\ sess' = db /\ db' = db /\ sink' = sink
           /\ onDbRaise


env == <<caller, input, cfg, tenant, ex, wk, groups, gh>>
fix == <<env, bk>>

(* ---------------------------------------------------------------------- *)
(* deploy: the statements of the try block                                 *)
(* ---------------------------------------------------------------------- *)
\* tenant = tenant_repo.get_default(); RuntimeError when there is none
GetTenant ==
  /\ At("tenant")
  /\ \/ tenant /\ NoFault /\ Continue
     \/ ~tenant /\ NoFault /\ Raise(NoTenantError)
     \/ Fault /\ Raise(DBError)
  /\ UNCHANGED <<fix, db, sess, now, dep, application, result, sink, cloud,
                 ssh, cn, hc>>

\* every update_progress(...) call of the try block but the health one
UpdateProgress ==
  /\ At("progress")
  /\ update_progress(Cur.a, Cur.b, Cur.st, Continue,
                     Raise(SinkError), Raise(DBError))
  /\ UNCHANGED <<fix, now, dep, application, cloud, ssh, cn, hc>>

\* a validation that lets every URL through
validate_github_url_any(url) == TRUE

\* validate_github_url: the URL is present, well formed and a GitHub
\* repository URL
validate_github_url(url) == url # "invalid"

\* validate_deployment_config on {'github_url', 'port'}: no error collected
validate_deployment_config(c) == validate_github_url(c.github_url) /\ c.port_ok

\* validate_github_url
ValidateUrl ==
  /\ At("validate_url")
  /\ IF validate_github_url(input.github_url)
     THEN Continue
     ELSE Raise(<<"Invalid GitHub URL: ", "URL must be a valid GitHub repository URL">>)
  /\ UNCHANGED <<fix, db, sess, now, dep, application, result, sink, faults,
                 cloud, ssh, cn, hc>>

\* validate_deployment_config on {'github_url', 'port'}
ValidateConfig ==
  /\ At("validate_cfg")
  /\ IF validate_deployment_config(input)
     THEN Continue
     ELSE Raise(<<"Invalid configuration: ", "Port: Port must be between 1 and 65535">>)
  /\ UNCHANGED <<fix, db, sess, now, dep, application, result, sink, faults,
                 cloud, ssh, cn, hc>>

\* application = app_repo.get_or_create(...); db.commit()
ResolveApplication ==
  /\ At("get_or_create")
  /\ \E u \in {UUID_B, UUID_C} :
     LET r == get_or_create(sess, input.github_url, u)
     IN \/ /\ NoFault
           /\ sess' = r[1] /\ db' = r[1] /\ application' = r[2]
           /\ Continue
        \/ /\ Fault
           /\ sess' = db /\ db' = db /\ application' = application
           /\ Raise(DBError)
  /\ UNCHANGED <<fix, now, dep, result, sink, cloud, ssh, cn, hc>>

\* dep = dep_repo.create(...); db.commit(); result['deployment_id'] = dep.short_id
CreateDeployment ==
  /\ At("create_deployment")
  /\ \E u \in Uuid4(sess) :
     LET s1 == create_deployment(sess, application, now, u)
         id == Len(sess.deps) + 1
     IN \/ /\ NoFault
           /\ sess' = s1 /\ db' = s1 /\ dep' = id
           /\ result' = [result EXCEPT !.deployment_id = short_id(u)]
           /\ Continue
        \/ \* the flush inside create raises: dep is still None
           /\ Fault
           /\ sess' = db /\ db' = db /\ dep' = NoDep /\ result' = result
           /\ Raise(DBError)
        \/ \* the commit raises: dep is bound to an object that was never stored
           /\ Fault
           /\ sess' = db /\ db' = db /\ dep' = id /\ result' = result
           /\ Raise(DBError)
  /\ UNCHANGED <<fix, now, application, sink, cloud, ssh, cn, hc>>

\* instance_info = self.aws_manager.create_instance(instance_name)
CreateInstance ==
  /\ At("create_instance")
  /\ \/ /\ NoFault
        /\ cloud' = Append(cloud, "running")
        /\ result' = [result EXCEPT !.instance_id = INSTANCE_ID]
        /\ Continue
     \/ \* create_instances raises, or wait_until_running does
        /\ Fault
        /\ cloud' \in {cloud, Append(cloud, "running")}
        /\ result' = result
        /\ Raise(ClientError)
  /\ UNCHANGED <<fix, db, sess, now, dep, application, sink, ssh, cn, hc>>

\* ec2_repo.create, link_application, add_step(dep.id, 1, ...), db.commit()
PersistInstance ==
  /\ At("persist_instance")
  /\ LET s1 == add_step(create_ec2(sess, INSTANCE_ID, application, DOCKER_HOST_PORT),
                        dep, 1, "EC2 Instance Created", "success",
                        <<"id=", INSTANCE_ID, " ip=", PUBLIC_IP>>)
     IN \/ NoFault /\ sess' = s1 /\ db' = s1 /\ Continue
        \/ Fault /\ sess' = db /\ db' = db /\ Raise(DBError)
  /\ UNCHANGED <<fix, now, dep, application, result, sink, cloud, ssh, cn, hc>>

\* a provisioning command that reports failure as (False, message):
\* install_docker, install_nginx, clone_repository, verify_project_files,
\* build_image, run_container, create_site_config, enable_site, reload_nginx
ProviderCommand ==
  /\ At("cmd") /\ Cur.a # "verify_project_files"
  /\ \/ NoFault /\ Continue
     \/ Fault /\ Raise(<<Cur.b, Cur.a>>)
  /\ UNCHANGED <<fix, db, sess, now, dep, application, result, sink, cloud,
                 ssh, cn, hc>>

\* required_files of verify_project_files when the caller passes none
REQUIRED_FILES == <<"Dockerfile">>

\* how the "test -f" of a required file ends on the remote host: the file
\* is there, it is not, or execute_command raises
VerifyOutcomes == {"exists", "missing", "raises"}

\* verify_project_files when its except clause reports a tree it could not
\* look at as complete
verify_project_files_trusting(outcome) ==
  [files_exist |-> outcome # "missing",
   missing_files |-> IF outcome = "exists" THEN <<>> ELSE REQUIRED_FILES]

\* GitHubManager.verify_project_files: (all_exist, missing_files); a check
\* that cannot be carried out reports every required file as missing
verify_project_files(outcome) ==
  [files_exist |-> outcome = "exists",
   missing_files |-> IF outcome = "exists" THEN <<>> ELSE REQUIRED_FILES]

\* files_exist, missing_files = github_manager.verify_project_files(repo_path)
\* if not files_exist: raise Exception("Missing required files: ...")
VerifyProjectFiles ==
  /\ At("cmd") /\ Cur.a = "verify_project_files"
  /\ \E o \in VerifyOutcomes :
       LET v == verify_project_files(o)
       IN /\ gh' = [gh EXCEPT !.missing_files = v.missing_files]
          /\ IF v.files_exist THEN NoFault /\ Continue
                              ELSE Fault /\ Raise(<<Cur.b, Cur.a>>)
  /\ UNCHANGED <<caller, input, cfg, tenant, ex, wk, groups, bk, db, sess, now,
                 dep, application, result, sink, cloud, ssh, cn, hc>>

\* dep_repo.add_step(dep.id, n, name, 'success', message); db.commit()
RecordStep ==
  /\ At("step")
  /\ LET s1 == add_step(sess, dep, Cur.phase, Cur.a, Cur.st, Cur.b)
     IN \/ NoFault /\ sess' = s1 /\ db' = s1 /\ Continue
        \/ Fault /\ sess' = db /\ db' = db /\ Raise(DBError)
  /\ UNCHANGED <<fix, now, dep, application, result, sink, cloud, ssh, cn, hc>>

\* Application marked active, add_step(dep.id, 7, ...), db.commit()
RecordContainerStep ==
  /\ At("container_step")
  /\ LET s1 == add_step(activate_application(sess, application, "container_name"),
                        dep, 7, Cur.a, "success", <<"container_name">>)
     IN \/ NoFault /\ sess' = s1 /\ db' = s1 /\ Continue
        \/ Fault /\ sess' = db /\ db' = db /\ Raise(DBError)
  /\ UNCHANGED <<fix, now, dep, application, result, sink, cloud, ssh, cn, hc>>

\* the hosts a deployment meets: the instance just created boots while the
\* first channel (docker) is opened; when the later channels are opened it is
\* up and accepts the same key, or it has dropped off the network
DeployErrKinds == {"ConnectionRefusedError", "unexpected"}
DeployHosts(who) ==
  {h \in Hosts(DeployErrKinds, {0}) :
     /\ h.upAfter = 0 => h.kind = "ConnectionRefusedError"
     /\ h.upAfter = Never => h.auth
     /\ who # "docker" => h.upAfter \in {0, Never} /\ h.auth}

\* XManager(public_ip, key_file).connect(max_wait=180, retry_interval=5,
\*                                       progress_callback=progress_callback)
DeployConnect ==
  /\ At("connect")
  /\ \E h \in DeployHosts(Cur.a) :
       cn' = NewConn(Cur.a, DEPLOY_MAX_WAIT, DEPLOY_RETRY_INTERVAL, TRUE, h)
  /\ pc' = "ssh_begin"
  /\ UNCHANGED <<fix, ip, db, sess, now, dep, application, result, sink, exc,
                 faults, cloud, ssh, hc>>

\* the try/except around each connect call
connect_prefix(who, ret) ==
  CASE who = "docker" /\ ret = "TimeoutError" -> <<"SSH connection timeout: ">>
    [] who = "docker" /\ ret # "TimeoutError" -> <<"Failed to establish SSH connection: ">>
    [] who = "nginx" -> <<"SSH for NGINX failed: ">>
    [] OTHER -> <<"SSH for GitHub failed: ">>

DeployConnectReturn ==
  /\ caller = "deploy" /\ pc = "ssh_ret"
  /\ IF cn.ret = "ok"
     THEN Continue /\ cn' = IdleConn
     ELSE Raise(connect_prefix(cn.who, cn.ret) \o cn.err) /\ cn' = cn
  /\ UNCHANGED <<fix, db, sess, now, dep, application, result, sink, faults,
                 cloud, ssh, hc>>

\* the port the proxy listens on
NGINX_PORT == 80

\* a health check that always goes to the container's host port
health_check_port_direct(nginx) == DOCKER_HOST_PORT

\* "health_check_port = 80" at the end of the proxy configuration section,
\* "else: health_check_port = host_port"
health_check_port(nginx) == IF nginx THEN NGINX_PORT ELSE DOCKER_HOST_PORT

\* health_checker = HealthChecker(public_ip, health_check_port)
\* health_checker.wait_for_healthy(max_retries=config.HEALTH_CHECK_RETRIES, ...)
DeployHealth ==
  /\ At("wait_for_healthy")
  /\ hc' = [NewHealth(HEALTH_CHECK_RETRIES, HEALTH_CHECK_INTERVAL)
            EXCEPT !.port = health_check_port(cfg.ENABLE_NGINX)]
  /\ pc' = "health_loop"
  /\ UNCHANGED <<fix, ip, db, sess, now, dep, application, result, sink, exc,
                 faults, cloud, ssh, cn>>

DeployHealthReturn ==
  /\ caller = "deploy" /\ pc = "health_ret"
  /\ Continue
  /\ UNCHANGED <<fix, db, sess, now, dep, application, result, sink, faults,
                 cloud, ssh, cn, hc>>

\* an unhealthy result recorded as a failed Step
health_status_failed(is_healthy) == IF is_healthy THEN "success" ELSE "failed"

\* "if is_healthy: ... 'success' else: ... 'warning'": the status of the
\* health Step and of its event
health_status(is_healthy) == IF is_healthy THEN "success" ELSE "warning"

\* the add_step of the health check: flushed, committed by what follows
HealthStep ==
  /\ At("health_step")
  /\ LET healthy == hc.ret = "healthy"
         s1 == add_step(sess, dep, 9,
                        IF healthy THEN "Health Check Passed"
                        ELSE "Health Check Warning",
                        health_status(healthy),
                        IF healthy THEN NoMsg ELSE hc.msg)
     IN \/ NoFault /\ sess' = s1 /\ Continue
        \/ Fault /\ sess' = db /\ Raise(DBError)
  /\ UNCHANGED <<fix, db, now, dep, application, result, sink, cloud, ssh, cn, hc>>

\* the update_progress of the health check
HealthProgress ==
  /\ At("health_progress")
  /\ LET healthy == hc.ret = "healthy"
     IN update_progress("Health Check",
                        IF healthy THEN <<"Application is healthy">>
                        ELSE <<"Health check warning: ">> \o hc.msg,
                        health_status(healthy), Continue,
                        Raise(SinkError), Raise(DBError))
  /\ UNCHANGED <<fix, now, dep, application, cloud, ssh, cn, hc>>

\* the db.commit() that ends the health section
CommitHealth ==
  /\ At("commit")
  /\ \/ NoFault /\ db' = sess /\ sess' = sess /\ Continue
     \/ Fault /\ db' = db /\ sess' = db /\ Raise(DBError)
  /\ UNCHANGED <<fix, now, dep, application, result, sink, cloud, ssh, cn, hc>>

\* Step 10: result filled in, mark_success, update_last_deployed, db.commit()
Finalize ==
  /\ At("finalize")
  /\ LET url == deployment_url(cfg.ENABLE_NGINX)
         s1 == update_last_deployed(mark_success(sess, dep, url, now),
                                    application, now)
     IN /\ result' = [result EXCEPT !.url = url, !.success = TRUE]
        /\ \/ NoFault /\ sess' = s1 /\ db' = s1 /\ Continue
           \/ Fault /\ sess' = db /\ db' = db /\ Raise(DBError)
  /\ UNCHANGED <<fix, now, dep, application, sink, cloud, ssh, cn, hc>>

\* docker_manager.close(), github_manager.close(), nginx_manager.close()
CloseChannel ==
  /\ At("close")
  /\ \/ NoFault /\ ssh' = [ssh EXCEPT ![Cur.a] = "closed"] /\ Continue
     \/ Fault /\ ssh' = ssh /\ Raise(CloseError)
  /\ UNCHANGED <<fix, db, sess, now, dep, application, result, sink, cloud,
                 cn, hc>>

\* return result (the finally clause runs next)
ReturnResult ==
  /\ At("return")
  /\ pc' = "finally"
  /\ UNCHANGED <<fix, ip, db, sess, now, dep, application, result, sink, exc,
                 faults, cloud, ssh, cn, hc>>

(* ---------------------------------------------------------------------- *)
(* deploy: the failure path                                                *)
(* ---------------------------------------------------------------------- *)
\* without the inner except clause the exception leaves deploy
Logged_escapes(next, msg) == pc' = "raised" /\ ip' = ip /\ exc' = msg

\* the inner except clause binding the exception being reported to its own
Logged_masks(next, msg) == pc' = next /\ ip' = ip /\ exc' = msg

\* an exception caught by an inner "except Exception: logger.error(...)":
\* execution goes on at next, the exception being handled stays e
Logged(next, msg) == pc' = next /\ ip' = ip /\ exc' = exc

\* except Exception as e: result['success'] = False; result['error'] = str(e)
Except ==
  /\ caller = "deploy" /\ pc = "except"
  /\ result' = [result EXCEPT !.success = FALSE, !.error = exc]
  /\ pc' = "bookkeep"
  /\ UNCHANGED <<fix, ip, db, sess, now, dep, application, sink, exc, faults,
                 cloud, ssh, cn, hc>>

AfterBookkeep == IF result.instance_id # "None" THEN "cleanup" ELSE "finally"

\* try: db.rollback(); if dep: mark_failed; db.commit()
\* except Exception as db_err: logged, nothing else
Bookkeep ==
  /\ caller = "deploy" /\ pc = "bookkeep"
  /\ LET s0 == rollback(db, sess)
         s1 == IF dep # NoDep THEN mark_failed(s0, dep, exc, now) ELSE s0
     IN \/ /\ NoFault /\ sess' = s1 /\ db' = IF dep # NoDep THEN s1 ELSE db
           /\ bk' = "ok" /\ pc' = AfterBookkeep /\ ip' = ip /\ exc' = exc
        \/ /\ Fault /\ sess' = db /\ db' = db
           /\ bk' = "fault" /\ Logged(AfterBookkeep, DBError)
  /\ UNCHANGED <<env, now, dep, application, result, sink, cloud, ssh, cn, hc>>

\* the except clause around the cleanup events: logged, nothing else
Swallow(msg) == Logged("finally", msg)

\* try: update_progress('Cleanup', ..., 'in_progress')
CleanupBegin ==
  /\ caller = "deploy" /\ pc = "cleanup"
  /\ update_progress("Cleanup", <<"Cleaning up failed deployment">>, "in_progress",
                     pc' = "cleanup_noted" /\ ip' = ip /\ exc' = exc,
                     Swallow(SinkError), Swallow(DBError))
  /\ UNCHANGED <<fix, now, dep, application, cloud, ssh, cn, hc>>

\* AWSManager.terminate_instance: instance.terminate()
terminate_instance(c) == [i \in DOMAIN c |-> "terminated"]

\* what the cleanup does to the provider's instances: the call of
\* aws_manager.terminate_instance is commented out, so nothing
cleanup_instance(c) == c

\* update_progress('Cleanup', ..., 'success')  except: log only
CleanupNoted ==
  /\ caller = "deploy" /\ pc = "cleanup_noted"
  /\ cloud' = cleanup_instance(cloud)
  /\ update_progress("Cleanup", <<"Cleanup noted (instance kept for debugging)">>,
                     "success", Swallow(NoMsg),
                     Swallow(SinkError), Swallow(DBError))
  /\ UNCHANGED <<fix, now, dep, application, ssh, cn, hc>>

\* finally: clear_deployment_context(); db.close(); the caller gets result
Finally ==
  /\ caller = "deploy" /\ pc = "finally"
  /\ sess' = db
  /\ result' = [result EXCEPT !.returned = TRUE]
  /\ pc' = "done"
  /\ UNCHANGED <<fix, ip, db, now, dep, application, sink, exc, faults, cloud,
                 ssh, cn, hc>>


(* ---------------------------------------------------------------------- *)
(* SSHClient.connect                                                       *)
(* ---------------------------------------------------------------------- *)
\* elapsed = int(time.time() - start_time), read at the top of the loop
Elapsed == now - cn.start_time
max_attempts == cn.max_wait \div cn.retry_interval

\* the timeout check with > for >=
timed_out_late(elapsed, max_wait) == elapsed > max_wait

\* "if elapsed >= max_wait": the timeout check at the top of the loop
timed_out(elapsed, max_wait) == elapsed >= max_wait

\* what the next paramiko connect (the n-th of this call) raises
Raises ==
  LET n == cn.made + 1
  IN IF cn.host.upAfter # Never /\ n > cn.host.upAfter
     THEN IF cn.host.auth THEN "none" ELSE "AuthenticationException"
     ELSE cn.host.kind

\* the clauses in the other order: AuthenticationException is an SSHException
\* and is caught as a boot-time error
except_clause_reordered(c) ==
  CASE c = "unexpected" -> "generic"
    [] OTHER -> "retry"

\* the except clause of connect that catches an exception of class c:
\* AuthenticationException first, then the boot-time errors, then Exception
except_clause(c) ==
  CASE c = "AuthenticationException" -> "auth"
    [] c = "unexpected" -> "generic"
    [] OTHER -> "retry"

Deliver(ev) == sink' = IF cn.cb THEN Append(sink, ev) ELSE sink
SshEvent(message, status) == Event("SSH Connection", message, status)
Raised(c, type, msg) == [c EXCEPT !.ret = type, !.err = msg]

\* cn after "attempt += 1" and one more paramiko connect
Attempted ==
  [cn EXCEPT !.attempt = @ + 1, !.made = @ + 1,
             !.established = IF Raises = "none" THEN @ + 1 ELSE @,
             !.authSeen = IF Raises = "AuthenticationException" THEN @ + 1 ELSE @]

\* start_time, attempt = 0 and the initial progress emission
SshBegin ==
  /\ pc = "ssh_begin"
  /\ LET c0 == [cn EXCEPT !.start_time = now, !.attempt = 0]
         ev == SshEvent(<<"Waiting for SSH to become available (cloud-init may be running)...">>,
                        "in_progress")
     IN \/ NoFault /\ Deliver(ev) /\ cn' = c0 /\ pc' = "ssh_loop"
        \/ /\ cn.cb /\ Fault /\ sink' = sink
           /\ cn' = Raised(c0, "Exception", SinkError) /\ pc' = "ssh_ret"
  /\ UNCHANGED <<fix, ip, db, sess, now, dep, application, result, exc, cloud,
                 ssh, hc>>

\* attempt += 1; if elapsed >= max_wait: report and raise TimeoutError
SshTimeout ==
  /\ pc = "ssh_loop" /\ timed_out(Elapsed, cn.max_wait)
  /\ LET c0 == [cn EXCEPT !.attempt = @ + 1]
         ev == SshEvent(<<"[ERROR] ">> \o timeout_msg(cn.max_wait), "error")
     IN \/ /\ NoFault /\ Deliver(ev)
           /\ cn' = Raised(c0, "TimeoutError", timeout_msg(cn.max_wait))
        \/ /\ cn.cb /\ Fault /\ sink' = sink
           /\ cn' = Raised(c0, "Exception", SinkError)
  /\ pc' = "ssh_ret"
  /\ UNCHANGED <<fix, ip, db, sess, now, dep, application, result, exc, cloud,
                 ssh, hc>>

\* a fresh paramiko client connects: keep-alive, success event, return.
\* The event is emitted inside the try block: a callback that raises lands
\* in "except Exception", which reports a warning, sleeps and loops.
SshConnected ==
  /\ pc = "ssh_loop" /\ ~timed_out(Elapsed, cn.max_wait) /\ Raises = "none"
  /\ ssh' = [ssh EXCEPT ![cn.who] = "open"]
  /\ LET c0 == Attempted
         ok == SshEvent(<<"[OK] ", "SSH connection established after ",
                          ToString(Elapsed), "s (", ToString(c0.attempt),
                          " attempts)">>, "success")
         warn == SshEvent(<<"[WARN] Unexpected error: ", "Exception">>, "warning")
     IN \/ /\ NoFault /\ Deliver(ok) /\ now' = now
           /\ cn' = Raised(c0, "ok", NoMsg) /\ pc' = "ssh_ret"
        \/ /\ cn.cb /\ Fault /\ sink' = Append(sink, warn)
           /\ IF Elapsed >= cn.max_wait
              THEN now' = now /\ cn' = Raised(c0, "Exception", SinkError)
                   /\ pc' = "ssh_ret"
              ELSE now' = now + cn.retry_interval
                   /\ cn' = [c0 EXCEPT !.sleeps = @ + 1] /\ pc' = "ssh_loop"
        \/ /\ cn.cb /\ faults + 2 <= MaxFaults /\ faults' = faults + 2
           /\ sink' = sink /\ now' = now
           /\ cn' = Raised(c0, "Exception", SinkError) /\ pc' = "ssh_ret"
  /\ UNCHANGED <<fix, ip, db, sess, dep, application, result, exc, cloud, hc>>

\* except paramiko.AuthenticationException: report and re-raise
SshAuthFailed ==
  /\ pc = "ssh_loop" /\ ~timed_out(Elapsed, cn.max_wait)
  /\ Raises # "none" /\ except_clause(Raises) = "auth"
  /\ ssh' = [ssh EXCEPT ![cn.who] = "broken"]
  /\ LET c0 == Attempted
         ev == SshEvent(<<"[ERROR] ", "SSH authentication failed: ">> \o AuthError,
                        "error")
     IN \/ /\ NoFault /\ Deliver(ev)
           /\ cn' = Raised(c0, "AuthenticationException", AuthError)
        \/ /\ cn.cb /\ Fault /\ sink' = sink
           /\ cn' = Raised(c0, "Exception", SinkError)
  /\ pc' = "ssh_ret"
  /\ UNCHANGED <<fix, ip, db, sess, now, dep, application, result, exc, cloud, hc>>

\* except (socket.error, socket.timeout, SSHException, EOFError): classify,
\* report, sleep retry_interval
SshNotReady ==
  /\ pc = "ssh_loop" /\ ~timed_out(Elapsed, cn.max_wait)
  /\ Raises # "none" /\ except_clause(Raises) = "retry"
  /\ ssh' = [ssh EXCEPT ![cn.who] = "broken"]
  /\ LET c0 == Attempted
         ev == SshEvent(<<"[WAIT] SSH not ready (", classify_ssh_error(Raises),
                          "), retrying ", ToString(c0.attempt), "/",
                          ToString(max_attempts), " (~",
                          ToString(cn.max_wait - Elapsed), "s remaining)...">>,
                        "in_progress")
     IN \/ /\ NoFault /\ Deliver(ev)
           /\ now' = now + cn.host.dur + cn.retry_interval
           /\ cn' = [c0 EXCEPT !.sleeps = @ + 1,
                               !.reported = IF cn.cb THEN @ + 1 ELSE @]
           /\ pc' = "ssh_loop"
        \/ /\ cn.cb /\ Fault /\ sink' = sink
           /\ now' = now + cn.host.dur
           /\ cn' = Raised(c0, "Exception", SinkError) /\ pc' = "ssh_ret"
  /\ UNCHANGED <<fix, ip, db, sess, dep, application, result, exc, cloud, hc>>

\* except Exception: report a warning, sleep retry_interval
SshUnexpected ==
  /\ pc = "ssh_loop" /\ ~timed_out(Elapsed, cn.max_wait)
  /\ Raises # "none" /\ except_clause(Raises) = "generic"
  /\ ssh' = [ssh EXCEPT ![cn.who] = "broken"]
  /\ LET c0 == Attempted
         ev == SshEvent(<<"[WARN] Unexpected error: ", "Exception">>, "warning")
     IN \/ /\ NoFault /\ Deliver(ev)
           /\ IF Elapsed >= cn.max_wait
              THEN now' = now + cn.host.dur
                   /\ cn' = Raised(c0, "Exception", <<"unexpected">>)
                   /\ pc' = "ssh_ret"
              ELSE now' = now + cn.host.dur + cn.retry_interval
                   /\ cn' = [c0 EXCEPT !.sleeps = @ + 1] /\ pc' = "ssh_loop"
        \/ /\ cn.cb /\ Fault /\ sink' = sink
           /\ now' = now + cn.host.dur
           /\ cn' = Raised(c0, "Exception", SinkError) /\ pc' = "ssh_ret"
  /\ UNCHANGED <<fix, ip, db, sess, dep, application, result, exc, cloud, hc>>

\* connect called directly: the call ends with cn.ret
ConnectReturn ==
  /\ caller = "connect" /\ pc = "ssh_ret"
  /\ pc' = "done"
  /\ UNCHANGED <<fix, ip, db, sess, now, dep, application, result, sink, exc,
                 faults, cloud, ssh, cn, hc>>

(* ---------------------------------------------------------------------- *)
(* HealthChecker.wait_for_healthy                                          *)
(* ---------------------------------------------------------------------- *)
\* sleeping after the last check as well
sleeps_after_always(attempt, max_retries) == attempt <= max_retries

\* "if attempt < max_retries": sleep before the next check
sleeps_after(attempt, max_retries) == attempt < max_retries

\* an iteration whose check_application_health is healthy: return True
HealthCheckHealthy ==
  /\ pc = "health_loop" /\ hc.attempt < hc.max_retries
  /\ hc' = [hc EXCEPT !.attempt = @ + 1, !.checks = @ + 1, !.ret = "healthy",
                      !.msg = healthy_msg(hc.attempt + 1)]
  /\ pc' = "health_ret"
  /\ UNCHANGED <<fix, ip, db, sess, now, dep, application, result, sink, exc,
                 faults, cloud, ssh, cn>>

\* an iteration whose check is not healthy (check_application_health turns
\* every error into a False result): sleep unless it was the last
HealthCheckUnhealthy ==
  /\ pc = "health_loop" /\ hc.attempt < hc.max_retries
  /\ LET a == hc.attempt + 1
     IN IF sleeps_after(a, hc.max_retries)
        THEN /\ hc' = [hc EXCEPT !.attempt = a, !.checks = @ + 1,
                                 !.unhealthy = @ + 1, !.sleeps = @ + 1]
             /\ now' = now + hc.retry_interval
        ELSE /\ hc' = [hc EXCEPT !.attempt = a, !.checks = @ + 1,
                                 !.unhealthy = @ + 1]
             /\ now' = now
  /\ pc' = pc
  /\ UNCHANGED <<fix, ip, db, sess, dep, application, result, sink, exc,
                 faults, cloud, ssh, cn>>

\* the loop is exhausted: return False with the message
HealthExhausted ==
  /\ pc = "health_loop" /\ hc.attempt >= hc.max_retries
  /\ hc' = [hc EXCEPT !.ret = "unhealthy", !.msg = unhealthy_msg(hc.max_retries)]
  /\ pc' = "health_ret"
  /\ UNCHANGED <<fix, ip, db, sess, now, dep, application, result, sink, exc,
                 faults, cloud, ssh, cn>>

\* wait_for_healthy called directly: the call ends with hc.ret
HealthReturn ==
  /\ caller = "wait_for_healthy" /\ pc = "health_ret"
  /\ pc' = "done"
  /\ UNCHANGED <<fix, ip, db, sess, now, dep, application, result, sink, exc,
                 faults, cloud, ssh, cn, hc>>

(* ---------------------------------------------------------------------- *)
(* Specification                                                           *)
(* ---------------------------------------------------------------------- *)
(* ---------------------------------------------------------------------- *)
(* SSHClient.execute_command / execute_commands                            *)
(* ---------------------------------------------------------------------- *)
\* everything but the locals of execute_commands and the position
still == <<caller, input, cfg, tenant, ip, db, sess, now, dep, application,
           result, sink, exc, faults, cloud, ssh, bk, cn, hc, wk, groups, gh>>

\* an execute_command that raises for a non-zero exit code as well
command_raises_on_exit(connected, c) ==
  ~connected \/ c.raises \/ c.exit_code # 0

\* execute_command raises: "if not self.client: raise", or exec_command /
\* recv_exit_status / read raised and the except clause re-raised
command_raises(connected, c) == ~connected \/ c.raises

\* what execute_command returns for the k-th command: (exit_code, stdout, stderr)
command_result(k, c) == [exit_code |-> c.exit_code, stdout |-> k, stderr |-> k]

\* a loop that stops at a failed command whatever stop_on_error says
breaks_on_any_error(stop_on_error, exit_code) == exit_code # 0

\* "if stop_on_error and result[0] != 0: break"
breaks(stop_on_error, exit_code) == stop_on_error /\ exit_code # 0

\* one iteration of "for cmd in commands": execute_command returns
ExecuteCommand ==
  /\ pc = "exec_loop" /\ ~ex.broke /\ ex.started < Len(ex.commands)
  /\ LET k == ex.started + 1
         c == ex.commands[k]
     IN /\ ~command_raises(ex.connected, c)
        /\ ex' = [ex EXCEPT !.started = k, !.ran = Append(@, k),
                            !.results = Append(@, command_result(k, c)),
                            !.broke = breaks(ex.stop_on_error, c.exit_code)]
  /\ pc' = pc
  /\ UNCHANGED still

\* one iteration of "for cmd in commands": execute_command raises, and so
\* does execute_commands
ExecuteCommandRaises ==
  /\ pc = "exec_loop" /\ ~ex.broke /\ ex.started < Len(ex.commands)
  /\ LET k == ex.started + 1
         c == ex.commands[k]
     IN /\ command_raises(ex.connected, c)
        /\ ex' = [ex EXCEPT !.started = k,
                            !.ran = IF ex.connected THEN Append(@, k) ELSE @,
                            !.ret = "Exception",
                            !.err = IF ex.connected THEN <<"channel error">>
                                    ELSE <<"SSH client not connected">>]
  /\ pc' = "done"
  /\ UNCHANGED still

\* the loop is over or was left by break: return results
ExecuteCommandsReturn ==
  /\ pc = "exec_loop" /\ (ex.broke \/ ex.started = Len(ex.commands))
  /\ ex' = [ex EXCEPT !.ret = "ok"]
  /\ pc' = "done"
  /\ UNCHANGED still


(* ---------------------------------------------------------------------- *)
(* GitHubManager.clone_repository                                          *)
(* ---------------------------------------------------------------------- *)
\* everything but the locals of clone_repository and the position
apart == <<caller, input, cfg, tenant, ip, db, sess, now, dep, application,
           result, sink, exc, faults, cloud, ssh, bk, cn, hc, ex, wk, groups>>

\* stderr of a failed "git clone -b <branch> <url> <destination>", in words
clone_stderr(outcome, branch) ==
  CASE outcome = "no_branch" ->
         <<"warning:", "Could", "not", "find", "remote", "branch", branch, "to",
           "clone.", "fatal:", "Remote", "branch", branch, "not", "found", "in",
           "upstream", "origin">>
    [] outcome = "no_repository" ->
         <<"remote:", "Repository", "not", "found.", "fatal:", "repository",
           input.github_url, "not", "found">>
    [] outcome = "no_access" ->
         <<"fatal:", "Authentication", "failed", "for", input.github_url>>
    [] OTHER -> <<>>

\* str.lower(), word by word, on the words git writes with a capital
lower(w) ==
  CASE w = "Could" -> "could" [] w = "Remote" -> "remote"
    [] w = "Repository" -> "repository" [] w = "Authentication" -> "authentication"
    [] OTHER -> w

\* 'not found' in stderr.lower()
not_found_in(stderr) ==
  \E i \in 1 .. (Len(stderr) - 1) :
    lower(stderr[i]) = "not" /\ lower(stderr[i + 1]) \in {"found", "found."}

\* how the clone of the current branch ends
CloneOutcome == IF gh.branch = "main" THEN gh.main ELSE gh.other

\* install_git() fails: return False, "Failed to install Git: ...", ""
CloneWithoutGit ==
  /\ pc = "clone_begin" /\ ~gh.install_git
  /\ gh' = [gh EXCEPT !.ret = "failure", !.msg = <<"Failed to install Git: ">>]
  /\ pc' = "done"
  /\ UNCHANGED apart

\* install_git() succeeds, "rm -rf destination", then the clone command
\* exits with 0: readlink, return True
CloneOk ==
  /\ pc = "clone_begin" /\ gh.install_git /\ CloneOutcome = "ok"
  /\ gh' = [gh EXCEPT !.clones = Append(@, gh.branch), !.ret = "success",
                      !.msg = <<"Repository cloned successfully to ", "repo_path">>]
  /\ pc' = "done"
  /\ UNCHANGED apart

\* execute_command raises under the clone command: except Exception,
\* return False, "Error cloning repository: ...", ""
CloneRaises ==
  /\ pc = "clone_begin" /\ gh.install_git /\ CloneOutcome = "raises"
  /\ gh' = [gh EXCEPT !.clones = Append(@, gh.branch), !.ret = "failure",
                      !.msg = <<"Error cloning repository: ", "channel error">>]
  /\ pc' = "done"
  /\ UNCHANGED apart

\* the clone command exits non-zero: "if branch == 'main' and 'not found' in
\* stderr.lower()" the method calls itself for master, else returns False
CloneFailed ==
  /\ pc = "clone_begin" /\ gh.install_git
  /\ CloneOutcome \notin {"ok", "raises"}
  /\ IF gh.branch = "main" /\ not_found_in(clone_stderr(CloneOutcome, gh.branch))
     THEN /\ gh' = [gh EXCEPT !.clones = Append(@, gh.branch), !.branch = "master"]
          /\ pc' = "clone_begin"
     ELSE /\ gh' = [gh EXCEPT !.clones = Append(@, gh.branch), !.ret = "failure",
                              !.msg = <<"Failed to clone repository.">> \o
                                      clone_stderr(CloneOutcome, gh.branch)]
          /\ pc' = "done"
  /\ UNCHANGED apart


(* ---------------------------------------------------------------------- *)
(* Concurrent deploy calls: what each thread does to the tables            *)
(* ---------------------------------------------------------------------- *)
\* the unique constraint uq_app_tenant_slug refusing an INSERT
IntegrityError == <<"IntegrityError: uq_app_tenant_slug">>

\* a write a session has flushed: the rows are those of the repositories,
\* op names the call, id the row it belongs to, n the step number, msg the
\* text (slug, uuid, message) that goes with it
Write(op, id, n, msg) == [op |-> op, id |-> id, n |-> n, msg |-> msg]

\* the tables after one flushed write
written(s, o) ==
  CASE o.op = "app" -> insert_application(s, input.github_url, o.msg)
    [] o.op = "dep" -> create_deployment(s, o.id, now, o.msg)
    [] o.op = "log" -> add_log(s, o.id, o.msg, "INFO")
    [] o.op = "step" -> add_step(s, o.id, o.n, "EC2 Instance Created", "success", NoMsg)
    [] o.op = "success" -> mark_success(s, o.id, o.msg, now)
    [] o.op = "failed" -> mark_failed(s, o.id, o.msg, now)

\* the tables after the writes ws, in order
RECURSIVE commit_writes(_, _)
commit_writes(s, ws) ==
  IF ws = <<>> THEN s ELSE commit_writes(written(s, Head(ws)), Tail(ws))

\* one session for every deploy call
session_shared(w) == 1

\* db = SessionLocal() at the top of deploy: a session of the call's own
session_of(w) == w

\* the writes flushed in the session worker w uses
Pend(w) == wk[session_of(w)].pend
\* the tables as the queries of worker w see them
View(w) == commit_writes(db, Pend(w))

\* worker w goes on with the fields in f and the flushed writes ws
Go(w, f, ws) ==
  wk' = [v \in Workers |->
           IF v = w
           THEN [f EXCEPT !.pend = IF session_of(w) = w THEN ws ELSE wk[w].pend]
           ELSE IF v = session_of(w) THEN [wk[v] EXCEPT !.pend = ws]
           ELSE wk[v]]

\* the uuid4 values of a worker's rows: no two workers get the same
WorkerUuid(w) == <<UUID_A, UUID_B, UUID_C>>[w]

Running(w, at) == caller = "deployments" /\ wk[w].pc = at

\* get_or_create: existing = self.get_by_github_url(tenant_id, github_url)
WorkerLookup ==
  \E w \in Workers :
    /\ Running(w, "lookup")
    /\ LET existing == get_by_github_url(View(w), input.github_url)
       IN Go(w, [wk[w] EXCEPT !.application = existing,
                              !.pc = IF existing # 0 THEN "app_commit" ELSE "slug"],
             Pend(w))
    /\ UNCHANGED <<caller, pc, ip, input, cfg, tenant, db, sess, now, dep,
                   application, result, sink, exc, faults, cloud, ssh, bk, cn,
                   hc, ex, groups, gh>>

\* create: slug = self._make_slug(name), suffixed if a row has it already
WorkerSlug ==
  \E w \in Workers :
    /\ Running(w, "slug")
    /\ Go(w, [wk[w] EXCEPT
                !.slug = unique_slug(View(w), make_slug(input.github_url),
                                     WorkerUuid(w)),
                !.pc = "insert"],
          Pend(w))
    /\ UNCHANGED <<caller, pc, ip, input, cfg, tenant, db, sess, now, dep,
                   application, result, sink, exc, faults, cloud, ssh, bk, cn,
                   hc, ex, groups, gh>>

\* another session holds an uncommitted row with this slug: the INSERT waits
\* for that transaction to end
Blocked(w, slug) ==
  \E v \in Workers :
    /\ session_of(v) # session_of(w)
    /\ \E i \in DOMAIN Pend(v) : Pend(v)[i].op = "app" /\ Pend(v)[i].msg = slug

\* create: self.db.add(app); self.db.flush(): the INSERT is refused when a
\* committed row has the slug
WorkerInsert ==
  \E w \in Workers :
    /\ Running(w, "insert")
    /\ ~Blocked(w, wk[w].slug)
    /\ IF \E i \in DOMAIN db.apps : db.apps[i].slug = wk[w].slug
       THEN Go(w, [wk[w] EXCEPT !.pc = "except", !.error = IntegrityError],
               Pend(w))
       ELSE Go(w, [wk[w] EXCEPT !.pc = "app_commit"],
               Append(Pend(w), Write("app", 0, 0, wk[w].slug)))
    /\ UNCHANGED <<caller, pc, ip, input, cfg, tenant, db, sess, now, dep,
                   application, result, sink, exc, faults, cloud, ssh, bk, cn,
                   hc, ex, groups, gh>>

\* where a worker goes after a commit, and what the commit tells it: the id
\* of the row it created
Committed(w) ==
  CASE wk[w].pc = "app_commit" ->
         [wk[w] EXCEPT !.pc = "create",
                       !.application = IF @ # 0 THEN @
                                       ELSE Len(commit_writes(db, Pend(w)).apps)]
    [] wk[w].pc = "dep_commit" ->
         [wk[w] EXCEPT !.pc = "log", !.dep = Len(commit_writes(db, Pend(w)).deps)]
    [] wk[w].pc = "log_commit" -> [wk[w] EXCEPT !.pc = "describe"]
    [] wk[w].pc = "step_commit" -> [wk[w] EXCEPT !.pc = "finalize"]
    [] wk[w].pc = "final_commit" -> [wk[w] EXCEPT !.pc = "done", !.success = TRUE]

\* every db.commit() of the try block: the session's flushed writes reach
\* the tables, or the commit raises and the transaction is gone
WorkerCommit ==
  \E w \in Workers :
    /\ caller = "deployments"
    /\ wk[w].pc \in {"app_commit", "dep_commit", "log_commit", "step_commit",
                     "final_commit"}
    /\ \/ /\ NoFault
          /\ db' = commit_writes(db, Pend(w))
          /\ Go(w, Committed(w), <<>>)
       \/ /\ Fault
          /\ db' = db
          /\ Go(w, [wk[w] EXCEPT !.pc = "except", !.error = DBError], <<>>)
    /\ UNCHANGED <<caller, pc, ip, input, cfg, tenant, sess, now, dep,
                   application, result, sink, exc, cloud, ssh, bk, cn, hc, ex, groups, gh>>

\* what a worker flushes next: dep_repo.create, the add_log of
\* update_progress, the add_step of the instance section, mark_success
Flushed(w) ==
  CASE wk[w].pc = "create" -> Write("dep", wk[w].application, 0, WorkerUuid(w))
    [] wk[w].pc = "log" ->
         Write("log", wk[w].dep, 0,
               log_message("EC2 Creation", <<"Creating EC2 instance">>))
    [] wk[w].pc = "step" -> Write("step", wk[w].dep, 1, NoMsg)
    [] wk[w].pc = "finalize" -> Write("success", wk[w].dep, 0, deployment_url(FALSE))

AfterFlush(at) ==
  CASE at = "create" -> "dep_commit"
    [] at = "log" -> "log_commit"
    [] at = "step" -> "step_commit"
    [] at = "finalize" -> "final_commit"

\* the repository calls of the try block, each ending in self.db.flush()
WorkerFlush ==
  \E w \in Workers :
    /\ caller = "deployments"
    /\ wk[w].pc \in {"create", "log", "step", "finalize"}
    /\ Go(w, [wk[w] EXCEPT !.pc = AfterFlush(wk[w].pc)],
          Append(Pend(w), Flushed(w)))
    /\ UNCHANGED <<caller, pc, ip, input, cfg, tenant, db, sess, now, dep,
                   application, result, sink, exc, faults, cloud, ssh, bk, cn,
                   hc, ex, groups, gh>>

\* InvalidGroup.Duplicate, the ClientError of create_security_group for a
\* name that is taken
DuplicateGroup == <<"provider ClientError", "InvalidGroup.Duplicate">>
SG_ID == "sg-1"

\* create_or_get_security_group: describe_security_groups by name; an
\* existing group is used as it is
WorkerDescribe ==
  \E w \in Workers :
    /\ Running(w, "describe")
    /\ IF groups # "none"
       THEN Go(w, [wk[w] EXCEPT !.pc = "provision", !.sg_id = SG_ID], Pend(w))
       ELSE Go(w, [wk[w] EXCEPT !.pc = "create_group"], Pend(w))
    /\ UNCHANGED <<caller, pc, ip, input, cfg, tenant, db, sess, now, dep,
                   application, result, sink, exc, faults, cloud, ssh, bk, cn,
                   hc, ex, groups, gh>>

\* create_or_get_security_group: create_security_group; the ClientError for
\* a name taken in the meantime is logged and raised again
WorkerCreateGroup ==
  \E w \in Workers :
    /\ Running(w, "create_group")
    /\ IF groups # "none"
       THEN /\ Go(w, [wk[w] EXCEPT !.pc = "except", !.error = DuplicateGroup],
                  Pend(w))
            /\ groups' = groups
       ELSE /\ Go(w, [wk[w] EXCEPT !.pc = "authorize", !.sg_id = SG_ID], Pend(w))
            /\ groups' = "created"
    /\ UNCHANGED <<caller, pc, ip, input, cfg, tenant, db, sess, now, dep,
                   application, result, sink, exc, faults, cloud, ssh, bk, cn,
                   hc, ex, gh>>

\* _configure_security_group_rules: authorize_security_group_ingress
WorkerAuthorize ==
  \E w \in Workers :
    /\ Running(w, "authorize")
    /\ groups' = "configured"
    /\ Go(w, [wk[w] EXCEPT !.pc = "provision"], Pend(w))
    /\ UNCHANGED <<caller, pc, ip, input, cfg, tenant, db, sess, now, dep,
                   application, result, sink, exc, faults, cloud, ssh, bk, cn,
                   hc, ex, gh>>

\* the other provider calls of a deployment (run_instances and what follows):
\* they return, or one of them raises
WorkerProvision ==
  \E w \in Workers :
    /\ Running(w, "provision")
    /\ \/ NoFault /\ Go(w, [wk[w] EXCEPT !.pc = "step"], Pend(w))
       \/ Fault /\ Go(w, [wk[w] EXCEPT !.pc = "except", !.error = ClientError],
                      Pend(w))
    /\ UNCHANGED <<caller, pc, ip, input, cfg, tenant, db, sess, now, dep,
                   application, result, sink, exc, cloud, ssh, bk, cn, hc, ex, groups, gh>>

\* except Exception as e: db.rollback(); if dep: dep_repo.mark_failed(...)
WorkerExcept ==
  \E w \in Workers :
    /\ Running(w, "except")
    /\ IF wk[w].dep # NoDep
       THEN Go(w, [wk[w] EXCEPT !.pc = "fail_commit"],
               <<Write("failed", wk[w].dep, 0, wk[w].error)>>)
       ELSE Go(w, [wk[w] EXCEPT !.pc = "done"], <<>>)
    /\ UNCHANGED <<caller, pc, ip, input, cfg, tenant, db, sess, now, dep,
                   application, result, sink, exc, faults, cloud, ssh, bk, cn,
                   hc, ex, groups, gh>>

\* the db.commit() of the failure handler; what it raises is logged only
WorkerFailCommit ==
  \E w \in Workers :
    /\ Running(w, "fail_commit")
    /\ \/ NoFault /\ db' = commit_writes(db, Pend(w))
       \/ Fault /\ db' = db
    /\ Go(w, [wk[w] EXCEPT !.pc = "done"], <<>>)
    /\ UNCHANGED <<caller, pc, ip, input, cfg, tenant, sess, now, dep,
                   application, result, sink, exc, cloud, ssh, bk, cn, hc, ex, groups, gh>>

Next ==
  \/ GetTenant \/ UpdateProgress \/ ValidateUrl \/ ValidateConfig
  \/ ResolveApplication \/ CreateDeployment \/ CreateInstance
  \/ PersistInstance \/ ProviderCommand \/ VerifyProjectFiles \/ RecordStep \/ RecordContainerStep
  \/ DeployConnect \/ DeployConnectReturn \/ DeployHealth \/ DeployHealthReturn
  \/ HealthStep \/ HealthProgress \/ CommitHealth \/ Finalize \/ CloseChannel
  \/ ReturnResult \/ Except \/ Bookkeep \/ CleanupBegin \/ CleanupNoted
  \/ Finally
  \/ SshBegin \/ SshTimeout \/ SshConnected \/ SshAuthFailed \/ SshNotReady
  \/ SshUnexpected \/ ConnectReturn
  \/ HealthCheckHealthy \/ HealthCheckUnhealthy \/ HealthExhausted
  \/ HealthReturn
  \/ ExecuteCommand \/ ExecuteCommandRaises \/ ExecuteCommandsReturn
  \/ WorkerLookup \/ WorkerSlug \/ WorkerInsert \/ WorkerCommit \/ WorkerFlush
  \/ WorkerDescribe \/ WorkerCreateGroup \/ WorkerAuthorize
  \/ CloneWithoutGit \/ CloneOk \/ CloneRaises \/ CloneFailed
  \/ WorkerProvision \/ WorkerExcept \/ WorkerFailCommit

Spec == Init /\ [][Next]_vars

TypeOK ==
  /\ pc \in {"run", "raised", "except", "bookkeep", "cleanup", "cleanup_noted", "finally",
             "done", "ssh_begin", "ssh_loop", "ssh_ret", "health_loop",
             "health_ret", "exec_loop", "threads", "clone_begin"}
  /\ faults \in 0 .. MaxFaults
  /\ dep \in 0 .. (Len(db.deps) + 1)


(* ---------------------------------------------------------------------- *)
(* Properties                                                              *)
(* ---------------------------------------------------------------------- *)
Returned == caller = "deploy" /\ pc = "done"
\* the Deployment record of this run exists in the committed tables
Recorded == dep \in DOMAIN db.deps
Terminal == {"success", "failed"}
StepNumbers(s, d) == {StepsOf(s, d)[i].step_number : i \in DOMAIN StepsOf(s, d)}

StatusEdges ==
  {<<"pending", "in_progress">>, <<"in_progress", "success">>,
   <<"in_progress", "failed">>}

\* C2: a Deployment's persisted status changes only along pending ->
\* in_progress -> {success, failed}; a terminal status never changes again
\* and no Deployment is ever cancelled.
C2_StatusEdgesOnly ==
  [][\A d \in DOMAIN db.deps :
       /\ d \in DOMAIN db'.deps
       /\ db'.deps[d].status # "cancelled"
       /\ db'.deps[d].status # db.deps[d].status =>
            <<db.deps[d].status, db'.deps[d].status>> \in StatusEdges]_vars

\* C3: completed_at and duration_seconds are both set exactly when the
\* status is success or failed, and both unset while it is in_progress.
C3_CompletionIffTerminal ==
  \A d \in DOMAIN db.deps :
    LET r == db.deps[d]
    IN /\ (r.completed_at # NoTime /\ r.duration_seconds # NoTime)
            <=> r.status \in Terminal
       /\ r.status = "in_progress" =>
            r.completed_at = NoTime /\ r.duration_seconds = NoTime

\* a run that ended in mark_success after the health check slept
C3_Witness ==
  /\ Returned /\ Recorded
  /\ db.deps[dep].status = "success" /\ db.deps[dep].duration_seconds > 0

\* C4 as stated: whenever deploy returns with its Deployment recorded, the
\* record's status is success or failed.
C4_TerminalAtReturn ==
  Returned /\ Recorded => db.deps[dep].status \in Terminal

\* C4 amended: whenever deploy returns with its Deployment recorded, the
\* status is success or failed unless the failure bookkeeping (rollback,
\* mark_failed, commit) itself faulted; that fault is swallowed and the
\* record keeps the status it had.
C4_TerminalUnlessBookkeepingFaulted ==
  Returned /\ Recorded =>
    /\ bk # "fault" => db.deps[dep].status \in Terminal
    /\ bk = "ok" => db.deps[dep].status = "failed"
    /\ bk = "fault" => db.deps[dep].status \in {"in_progress", "success"}

\* a failed run whose bookkeeping worked
C4_Witness ==
  Returned /\ Recorded /\ bk = "ok" /\ db.deps[dep].status = "failed"

\* deploy returned a failure whose fault was raised in the section that
\* writes Step n
FailedAt(n) ==
  Returned /\ Recorded /\ ~result.success /\ Program[ip].phase = n

StepStatusesOk(s, d) ==
  \A i \in DOMAIN StepsOf(s, d) :
    \/ StepsOf(s, d)[i].status = "success"
    \/ StepsOf(s, d)[i].step_number = 9 /\ StepsOf(s, d)[i].status = "warning"

\* the Step numbers of the sections up to k that run: 3 and 8 only with
\* proxying enabled, and there is no Step for finalize
RanUpTo(k) == {n \in 1 .. k : n <= 9 /\ (n \in {3, 8} => cfg.ENABLE_NGINX)}

\* C5 as stated: a deployment that fails at step N has exactly the Steps
\* 1..N-1, each success (warning for the health step), none above N.
C5_StepsAreOneToNMinusOne ==
  \A n \in 1 .. 10 :
    FailedAt(n) =>
      /\ StepNumbers(db, dep) = 1 .. (n - 1)
      /\ StepStatusesOk(db, dep)
      /\ \A k \in StepNumbers(db, dep) : k <= n

\* C5 amended: a deployment that fails at step N has the Steps of the
\* sections before N that ran (3 and 8 exist only with proxying enabled),
\* each success (warning for the health step), possibly Step N itself when
\* the fault came after it was committed, and none above N.
C5_StepsOfSectionsThatRan ==
  \A n \in 1 .. 10 :
    FailedAt(n) =>
      /\ RanUpTo(n - 1) \subseteq StepNumbers(db, dep)
      /\ StepNumbers(db, dep) \subseteq RanUpTo(n)
      /\ StepStatusesOk(db, dep)
      /\ \A k \in StepNumbers(db, dep) : k <= n

\* the clone fails with proxying disabled: Steps 1 and 2 only
C5_Witness ==
  FailedAt(4) /\ ~cfg.ENABLE_NGINX /\ StepNumbers(db, dep) = {1, 2}

\* C6: within a Deployment the Step numbers are unique, start at 1 and grow
\* in execution order; a committed Step is never renumbered, reordered,
\* modified or deleted, the failure path's rollback included.
C6_StepsAppendOnly ==
  /\ [](\A d \in DOMAIN db.deps :
          LET st == StepsOf(db, d)
          IN /\ \A i, j \in DOMAIN st : i < j => st[i].step_number < st[j].step_number
             /\ st # <<>> => st[1].step_number = 1)
  /\ [][\A d \in DOMAIN db.deps :
          LET a == StepsOf(db, d)
              b == StepsOf(db', d)
          IN Len(b) >= Len(a) /\ SubSeq(b, 1, Len(a)) = a]_vars

\* a failed run that had committed several Steps before the rollback
C6_Witness ==
  Returned /\ Recorded /\ bk = "ok" /\ Len(StepsOf(db, dep)) >= 3

\* C7: when everything succeeds but the health check never becomes healthy
\* within the configured attempts, the Deployment still ends success, the
\* result says success, and the last Step is a warning carrying the health
\* verifier's message.
C7_UnhealthyStillSucceeds ==
  Returned /\ hc.ret = "unhealthy" /\ exc = NoMsg =>
    /\ Recorded
    /\ db.deps[dep].status = "success"
    /\ result.success
    /\ LET st == StepsOf(db, dep)
       IN /\ st # <<>>
          /\ st[Len(st)].status = "warning"
          /\ st[Len(st)].step_number = 9
          /\ st[Len(st)].message = unhealthy_msg(HEALTH_CHECK_RETRIES)

\* a run that returned after all its health checks were unhealthy
C7_Witness ==
  /\ Returned /\ hc.ret = "unhealthy" /\ exc = NoMsg
  /\ hc.unhealthy = HEALTH_CHECK_RETRIES

\* C8: wait_for_healthy with max_retries = m returns success at the first
\* healthy check, the k-th, after exactly k checks and k-1 sleeps and checks
\* no more; when none of the m checks is healthy it returns failure (a
\* value) after exactly m checks and m-1 sleeps.
C8_ChecksAndSleeps ==
  /\ [](hc.ret = "healthy" =>
          /\ hc.checks = hc.unhealthy + 1
          /\ hc.sleeps = hc.checks - 1
          /\ hc.checks \in 1 .. hc.max_retries)
  /\ [](hc.ret = "unhealthy" =>
          /\ hc.unhealthy = hc.max_retries
          /\ hc.checks = hc.max_retries
          /\ hc.sleeps = hc.max_retries - 1)
  /\ [](pc = "health_ret" => hc.ret \in {"healthy", "unhealthy"})
  /\ [][hc.ret # "none" => hc' = hc]_vars

\* maxAttempts = 5, healthy on the 3rd check: 3 checks, 2 sleeps
C8_Witness ==
  /\ hc.max_retries = 5 /\ hc.ret = "healthy"
  /\ hc.unhealthy = 2 /\ hc.checks = 3 /\ hc.sleeps = 2

\* the host of the running connect never answers
Unreachable == cn.host.upAfter = Never

\* C9 as stated: connect(300, 5) against a host that never becomes
\* reachable raises the timeout after exactly 60 attempts, each classified
\* and reported through the callback.
C9_ExactlySixtyAttempts ==
  /\ cn.ret = "TimeoutError" /\ Unreachable
  /\ cn.max_wait = DEFAULT_MAX_WAIT /\ cn.retry_interval = DEFAULT_RETRY_INTERVAL
  => cn.made = 60 /\ cn.reported = 60

\* C9 amended: against a host that never becomes reachable connect raises
\* the timeout after at most max_wait / retry_interval attempts (60 for 300
\* and 5): as many as fit when each takes its own duration plus the sleep,
\* so exactly 60 only when failed attempts take no time; the failed
\* attempts of the boot-time classes are each classified and reported when
\* a callback is given.
C9_AttemptsFitMaxWait ==
  cn.ret = "TimeoutError" /\ Unreachable =>
    LET per == cn.host.dur + cn.retry_interval
    IN /\ cn.made <= max_attempts
       /\ (cn.made - 1) * per < cn.max_wait
       /\ cn.made * per >= cn.max_wait
       /\ cn.host.dur = 0 => cn.made = max_attempts
       /\ cn.cb /\ except_clause(cn.host.kind) = "retry" => cn.reported = cn.made
       /\ cn.sleeps = cn.made

\* connect(300, 5), instantly refused every time: 60 attempts, all reported
C9_Witness ==
  /\ caller = "connect" /\ pc = "done" /\ cn.ret = "TimeoutError"
  /\ cn.max_wait = DEFAULT_MAX_WAIT /\ cn.retry_interval = DEFAULT_RETRY_INTERVAL
  /\ cn.made = 60 /\ cn.reported = 60

FailurePath == {"except", "bookkeep", "cleanup", "cleanup_noted", "finally", "done"}

Classifications ==
  {"connection timeout", "SSH daemon not started", "connection refused",
   "DNS resolution failed", "network unreachable", "SSH not ready"}

\* this step of connect is a connection attempt that fails, and not on
\* authentication
AttemptFails ==
  /\ cn'.made = cn.made + 1
  /\ Raises \notin {"none", "AuthenticationException"}

\* C11: every failed connection attempt that is not an authentication
\* failure is reported through the callback with exactly one of the
\* classifications, raises nothing, and is followed by a sleep of
\* retry_interval and the next attempt.
C11_FailedAttemptClassifiedAndRetried ==
  [][AttemptFails =>
       /\ cn.cb =>
            /\ Len(sink') = Len(sink) + 1
            /\ sink'[Len(sink')].message[2] \in Classifications
       /\ cn'.ret = "none" /\ pc' = "ssh_loop"
       /\ cn'.sleeps = cn.sleeps + 1
       /\ now' = now + cn.host.dur + cn.retry_interval]_vars

\* C12: the timeout failure connect raises when max_wait has elapsed
\* carries the number of connection attempts made.
C12_TimeoutCarriesAttempts ==
  cn.ret = "TimeoutError" =>
    \E i \in DOMAIN cn.err : cn.err[i] \in {ToString(cn.made), ToString(cn.attempt)}

\* the number of commands up to and including the first with a non-zero
\* exit code, all of them when none fails
UpToFirstFailure(cs) ==
  IF \E k \in DOMAIN cs : cs[k].exit_code # 0
  THEN CHOOSE k \in DOMAIN cs :
         /\ cs[k].exit_code # 0
         /\ \A j \in 1 .. (k - 1) : cs[j].exit_code = 0
  ELSE Len(cs)

\* C13: execute_commands runs the commands in list order and returns one
\* result per command run: with stop_on_error the prefix ending at the first
\* command with a non-zero exit code (all when none fails) and no later
\* command is executed; without it every command, as many results as
\* commands.
C13_ResultsPerCommandRun ==
  ex.ret = "ok" =>
    LET n == IF ex.stop_on_error THEN UpToFirstFailure(ex.commands)
             ELSE Len(ex.commands)
    IN /\ ex.ran = [k \in 1 .. n |-> k]
       /\ ex.results = [k \in 1 .. n |-> command_result(k, ex.commands[k])]

\* three commands, the second fails: two results when stopping there, three
\* when going on
C13_Witness ==
  /\ ex.ret = "ok" /\ Len(ex.commands) = 3 /\ ex.commands[2].exit_code # 0
  /\ ex.commands[3].exit_code = 0
  /\ Len(ex.results) = IF ex.stop_on_error THEN 2 ELSE 3

\* C14: on a connected client a command's non-zero exit is returned as data
\* (exit code, stdout, stderr); execute_command raises only for a
\* channel-level failure: no connection, or the channel failing under the
\* command.
C14_ExitCodeIsData ==
  [][ex'.started = ex.started + 1 =>
       LET k == ex'.started
           c == ex.commands[k]
       IN /\ ex'.ret = "Exception" <=> (~ex.connected \/ c.raises)
          /\ ex'.ret # "Exception" =>
               /\ ex'.results = Append(ex.results, command_result(k, c))
               /\ ex'.results[k].exit_code = c.exit_code]_vars

\* a call that returned a non-zero exit code among its results
C14_Witness ==
  /\ ex.ret = "ok" /\ ex.connected
  /\ \E k \in DOMAIN ex.results : ex.results[k].exit_code # 0

\* the Deployment rows written by earlier runs
Earlier == DOMAIN db.deps \ {dep}

\* C15: a deploy that follows an earlier deploy of the same tenant and
\* source URL, failed or succeeded, uses the Application record the earlier
\* one used (there is no second Application row) and creates a Deployment
\* record of its own, distinct from the earlier one.
C15_SameApplicationNewDeployment ==
  Returned /\ Recorded /\ Earlier # {} =>
    /\ Len(db.apps) = 1
    /\ db.apps[application].github_url = input.github_url
    /\ \A d \in Earlier : db.deps[d].application_id = application
    /\ db.deps[dep].application_id = application
    /\ Len(db.deps) = Cardinality(Earlier) + 1
    /\ result.deployment_id = db.deps[dep].short_id

\* both the earlier deployment and this one succeeded
C15_Witness ==
  /\ Returned /\ Recorded /\ Earlier = {1} /\ dep = 2 /\ application = 1
  /\ db.deps[1].status = "success" /\ db.deps[2].status = "success"

\* C16: every Deployment's short id has exactly 8 characters, and no two
\* Deployments that are in_progress at the same time have the same short id.
C16_ShortIdsUniqueWhileActive ==
  /\ \A d \in DOMAIN db.deps : Len(db.deps[d].short_id) = 8
  /\ \A d, e \in DOMAIN db.deps :
       /\ d # e
       /\ db.deps[d].status = "in_progress" /\ db.deps[e].status = "in_progress"
       => db.deps[d].short_id # db.deps[e].short_id

\* C17: every progress event delivered to the callback during a deploy run,
\* from the orchestrator or from connect, corresponds to exactly one LogLine
\* of the Deployment with the same message (as it is, or under its step
\* label) and the matching level, in the same order.
C17_EveryEventHasItsLogLine ==
  Returned /\ Recorded =>
    LET lines == LogsOf(db, dep)
    IN /\ Len(lines) = Len(sink)
       /\ \A i \in DOMAIN sink :
            /\ i \in DOMAIN lines
            /\ lines[i].message \in
                 {sink[i].message, log_message(sink[i].step, sink[i].message)}
            /\ lines[i].log_level = log_level(sink[i].status)

\* the record is in result['steps'], was accepted by the callback and has
\* its LogLine
TripleWritten(e) ==
  /\ \E i \in DOMAIN result.steps : result.steps[i] = e
  /\ \E i \in DOMAIN sink : sink[i] = e
  /\ \E i \in DOMAIN LogsOf(db, dep) :
       /\ LogsOf(db, dep)[i].message = log_message(e.step, e.message)
       /\ LogsOf(db, dep)[i].log_level = log_level(e.status)

\* C18: the terminal transitions produce a progress record like every other
\* transition: a Deployment that ended success or failed has a record of
\* that end (for failed: an error record, or at least a record emitted after
\* the failure) in its LogLines, at the callback and in result['steps'].
C18_TerminalTransitionRecorded ==
  Returned /\ Recorded /\ db.deps[dep].status \in Terminal =>
    \E i \in DOMAIN result.steps :
      LET e == result.steps[i]
      IN /\ TripleWritten(e)
         /\ IF db.deps[dep].status = "success"
            THEN e.step = "Deployment Complete" /\ e.status = "success"
            ELSE e.status = "error" \/ e.step = "Cleanup"

\* the message is that of an exception raised by the progress callback,
\* possibly wrapped by the caller of connect
FromSink(msg) == msg # <<>> /\ msg[Len(msg)] = SinkError[1]

\* C19: a progress callback that raises never changes the outcome of a
\* deployment: no deployment takes its failure path because of the
\* callback's exception, and a connect whose channel was established does
\* not make another attempt.
C19_SinkFaultChangesNothing ==
  /\ caller = "deploy" /\ pc \in FailurePath => ~FromSink(exc)
  /\ cn.established <= 1

\* C20: when the rollback, mark_failed or commit of the failure path fails,
\* deploy does not raise, and the error of the returned result is still the
\* message of the original fault.
C20_BookkeepingFaultDoesNotMask ==
  /\ [](caller = "deploy" /\ bk = "fault" =>
          /\ pc # "raised"
          /\ ~result.success /\ result.error = exc
          /\ pc = "done" => result.returned)
  /\ [][pc = "bookkeep" => result' = result /\ exc' = exc]_vars

\* the instance could not be created and recording the failure failed too
C20_Witness ==
  /\ Returned /\ bk = "fault" /\ Recorded
  /\ result.error = ClientError /\ db.deps[dep].status = "in_progress"

\* C21: once the failure bookkeeping has succeeded for a recorded Deployment,
\* the Deployment is persisted as failed with an error_message that is, piece
\* for piece, the message of the fault that reached the failure handler, and
\* the result carries the same message as its error.
C21_FailureMessageVerbatim ==
  caller = "deploy" /\ bk = "ok" /\ Recorded =>
    /\ db.deps[dep].status = "failed"
    /\ db.deps[dep].error_message = exc
    /\ result.error = exc
    /\ ~result.success

C21_Witness ==
  /\ Returned /\ Recorded /\ bk = "ok"
  /\ Len(exc) = 2
  /\ db.deps[dep].error_message = exc
  /\ result.error = exc

\* C22: deploy never terminates or stops the instance it created: every
\* instance the provider holds is running in every state of deploy, and once
\* the result names an instance that instance is there and running, on the
\* failure path and after the cleanup events as well.
C22_InstanceLeftRunning ==
  caller = "deploy" =>
    /\ \A i \in DOMAIN cloud : cloud[i] = "running"
    /\ result.instance_id # "None" => cloud = <<"running">>

C22_Witness ==
  /\ Returned /\ ~result.success /\ bk # "none"
  /\ result.instance_id = INSTANCE_ID
  /\ \E i \in DOMAIN sink : sink[i].step = "Cleanup" /\ sink[i].status = "success"
  /\ cloud = <<"running">>

\* the inputs one of the two validations has to reject: a source URL that is
\* no GitHub repository URL, a port outside 1..65535
Rejected == input.github_url = "invalid" \/ ~input.port_ok

\* C23: a deploy whose source URL or configuration fails validation changes
\* no persisted table at any step, creates no Application, Deployment, Step,
\* LogLine or ComputeInstance row, requests no compute instance, and returns
\* a failure result without a deployment id.
C23_ValidationFailureWritesNothing ==
  /\ [][caller = "deploy" /\ Rejected => db' = db]_vars
  /\ [](caller = "deploy" /\ Rejected =>
          /\ sess = db
          /\ dep = NoDep
          /\ cloud = <<>>
          /\ result.instance_id = "None"
          /\ result.deployment_id = NoMsg
          /\ Returned => ~result.success /\ result.error = exc /\ exc # NoMsg)

C23_Witness ==
  /\ Returned /\ ~result.success
  /\ exc \in {<<"Invalid GitHub URL: ", "URL must be a valid GitHub repository URL">>,
               <<"Invalid configuration: ", "Port: Port must be between 1 and 65535">>}
  /\ db = PriorStore
  /\ result.deployment_id = NoMsg
  /\ cloud = <<>>

\* C24: in every committed state a Deployment has an error_message only when
\* its status is failed and a deployment_url only when its status is success.
C24_MessageAndUrlMatchStatus ==
  \A d \in DOMAIN db.deps :
    /\ db.deps[d].error_message # NoMsg => db.deps[d].status = "failed"
    /\ db.deps[d].deployment_url # NoMsg => db.deps[d].status = "success"

\* deploy is on its failure path because the command at ip returned a failure
CommandFailed ==
  /\ caller = "deploy" /\ pc \in FailurePath
  /\ Program[ip].op = "cmd"
  /\ exc = <<Program[ip].b, Program[ip].a>>

\* C25: when a provisioning command returned a failure as data and the
\* Deployment has been marked failed, a Step with status failed is committed
\* for the phase of that command.
C25_FailedCommandLeavesFailedStep ==
  CommandFailed /\ Recorded /\ db.deps[dep].status = "failed" =>
    \E i \in DOMAIN StepsOf(db, dep) :
      /\ StepsOf(db, dep)[i].step_number = Program[ip].phase
      /\ StepsOf(db, dep)[i].status = "failed"

\* the phase whose section of deploy emits the event, 0 when no section of
\* the numbered phases does
PhaseOf(e) ==
  IF \E j \in DOMAIN Program : Program[j].op = "progress" /\ Program[j].a = e.step
  THEN Program[CHOOSE j \in DOMAIN Program :
                 Program[j].op = "progress" /\ Program[j].a = e.step].phase
  ELSE 0

\* C26: whatever the progress callback has been handed, a reader of the
\* committed tables finds the writes made for it: the LogLine of every event
\* update_progress emitted for the Deployment, the Step of the phase once its
\* success (or warning) event is out, and a terminal Deployment status once
\* the final event is out.
C26_WritesCommittedBeforeEvent ==
  caller = "deploy" =>
    \A i \in DOMAIN sink :
      /\ PhaseOf(sink[i]) >= 1 \/ sink[i].step = "Cleanup" =>
           /\ Recorded
           /\ \E k \in DOMAIN LogsOf(db, dep) :
                /\ LogsOf(db, dep)[k].message =
                     log_message(sink[i].step, sink[i].message)
                /\ LogsOf(db, dep)[k].log_level = log_level(sink[i].status)
      /\ PhaseOf(sink[i]) \in 1 .. 9 /\ sink[i].status \in {"success", "warning"} =>
           \E k \in DOMAIN StepsOf(db, dep) :
             /\ StepsOf(db, dep)[k].step_number = PhaseOf(sink[i])
             /\ StepsOf(db, dep)[k].status = sink[i].status
      /\ sink[i].step = "Deployment Complete" =>
           Recorded /\ db.deps[dep].status \in Terminal

C26_Witness ==
  /\ Returned /\ result.success /\ Recorded
  /\ sink # <<>> /\ sink[Len(sink)].step = "Deployment Complete"
  /\ \E i \in DOMAIN sink : sink[i].step = "Health Check" /\ sink[i].status = "warning"
  /\ db.deps[dep].status = "success"

\* the statements that call a provider: the provisioning actions of a phase
Provisioning == {"create_instance", "connect", "cmd", "wait_for_healthy"}

\* C27: deploy goes through its statements in the fixed order of the phases
\* (instance, runtime, proxy install, clone, file verification, build, run,
\* proxy configuration, health check, finalize), leaving out only the proxy
\* statements when proxying is disabled and never going back; and whenever a
\* provisioning action of a phase is invoked, the Step of every earlier phase
\* that ran is committed.
C27_PhasesInOrderStepsFirst ==
  /\ [][caller = "deploy" /\ ip' # ip =>
          /\ ip' > ip
          /\ \A k \in (ip + 1) .. (ip' - 1) : Program[k].ng /\ ~cfg.ENABLE_NGINX
          /\ ip' \in DOMAIN Program =>
               /\ Program[ip'].ng => cfg.ENABLE_NGINX
               /\ Program[ip'].phase >= Program[ip].phase]_vars
  /\ [](caller = "deploy" /\ ip \in DOMAIN Program /\ Cur.op \in Provisioning =>
          \A m \in RanUpTo(Cur.phase - 1) :
            \E k \in DOMAIN StepsOf(db, dep) : StepsOf(db, dep)[k].step_number = m)

C27_Witness ==
  /\ caller = "deploy" /\ pc = "run" /\ ip \in DOMAIN Program
  /\ Cur.op = "wait_for_healthy" /\ cfg.ENABLE_NGINX
  /\ {StepsOf(db, dep)[k].step_number : k \in DOMAIN StepsOf(db, dep)} = 1 .. 8

\* C28: once the terminal status of the Deployment is committed, no later
\* commit changes its row, its Steps or its LogLines.
C28_TerminalWriteIsLast ==
  [][caller = "deploy" /\ Recorded /\ db.deps[dep].status \in Terminal =>
       /\ db'.deps[dep] = db.deps[dep]
       /\ StepsOf(db', dep) = StepsOf(db, dep)
       /\ LogsOf(db', dep) = LogsOf(db, dep)]_vars

\* C29: whatever the interleaving of the concurrent deploy calls for one
\* repository, the committed tables hold at most one Application with that
\* source URL, every Deployment of these calls belongs to it, and no call
\* fails on the insertion of the Application.
C29_OneApplicationUnderConcurrency ==
  caller = "deployments" =>
    /\ \A i, j \in DOMAIN db.apps :
         db.apps[i].github_url = db.apps[j].github_url => i = j
    /\ \A w \in Workers :
         /\ wk[w].dep \in DOMAIN db.deps =>
              db.deps[wk[w].dep].application_id =
                get_by_github_url(db, input.github_url)
         /\ wk[w].error # IntegrityError

\* the worker that takes the step
Acting(w) == wk'[w].pc # wk[w].pc

\* C30: a step of one worker, a fault, a rollback and the failure bookkeeping
\* included, leaves the locals and the session of every other worker alone
\* and changes no committed Deployment row, Step or LogLine but those of the
\* worker's own Deployment.
C30_WorkersWriteOnlyTheirOwn ==
  [][caller = "deployments" =>
       \A w \in Workers : Acting(w) =>
         /\ \A v \in Workers \ {w} : wk'[v] = wk[v]
         /\ \A d \in DOMAIN db.deps : d # wk[w].dep =>
              /\ db'.deps[d] = db.deps[d]
              /\ StepsOf(db', d) = StepsOf(db, d)
              /\ LogsOf(db', d) = LogsOf(db, d)
         /\ \A d \in DOMAIN db'.deps \ DOMAIN db.deps : d = wk'[w].dep]_vars

C30_Witness ==
  /\ caller = "deployments"
  /\ \E w, v \in Workers :
       /\ wk[w].pc = "done" /\ wk[w].error = ClientError
       /\ wk[w].dep \in DOMAIN db.deps /\ db.deps[wk[w].dep].status = "failed"
       /\ wk[v].pc = "done" /\ wk[v].success
       /\ wk[v].dep \in DOMAIN db.deps /\ db.deps[wk[v].dep].status = "success"
       /\ Len(StepsOf(db, wk[v].dep)) = 1 /\ Len(LogsOf(db, wk[v].dep)) = 1
       /\ StepsOf(db, wk[w].dep) = <<>>

\* C31: when concurrent deployments call create_instance, every one of them
\* that gets past create_or_get_security_group holds the id of the security
\* group, and none fails on the creation of the group by another.
C31_SecurityGroupSharedSafely ==
  caller = "deployments" =>
    \A w \in Workers :
      /\ wk[w].error # DuplicateGroup
      /\ wk[w].pc \in {"provision", "step", "step_commit", "finalize",
                       "final_commit"} => wk[w].sg_id = SG_ID /\ groups # "none"

\* "if not self.client" in execute_command and close: the SSHClient holds a
\* paramiko client, whatever state that client is in
client_set(c) == c # "none"

\* C32: once connect has ended in a timeout or an authentication failure,
\* the SSHClient holds no client of a failed attempt, so that execute_command
\* refuses to run ("SSH client not connected") instead of using it.
C32_FailedClientDiscarded ==
  pc \in {"ssh_ret", "done"} /\ cn.ret \in {"TimeoutError", "AuthenticationException"} =>
    ~client_set(ssh[cn.who])

\* C33: a call of clone_repository issues at most two clone commands; a
\* second one is for master and is issued only after a clone of main failed
\* because the branch was not found; every failure is returned as data.
C33_OneFallbackForMissingMain ==
  caller = "clone_repository" =>
    /\ Len(gh.clones) <= 2
    /\ Len(gh.clones) = 2 =>
         /\ gh.clones = <<"main", "master">>
         /\ gh.main = "no_branch"
    /\ pc = "done" => gh.ret \in {"success", "failure"}

\* C34: when verification of the cloned tree reports a required file missing,
\* or cannot be carried out, deploy leaves the try block at the verification:
\* it never goes on to the image build or the container run, no Step 5, 6 or
\* 7 of the deployment is written, and the call returns failure.
C34_UnverifiedTreeIsNotBuilt ==
  caller = "deploy" /\ gh.missing_files # <<>> =>
    /\ pc # "run"
    /\ Program[ip].a = "verify_project_files"
    /\ \A i \in DOMAIN StepsOf(sess, dep) : StepsOf(sess, dep)[i].step_number < 5
    /\ \A i \in DOMAIN StepsOf(db, dep) :
         StepsOf(db, dep)[i].step_number \notin {5, 6, 7}
    /\ pc = "done" => ~result.success

C34_Witness ==
  /\ Returned /\ Recorded /\ gh.missing_files = REQUIRED_FILES
  /\ ~result.success
  /\ Len(StepsOf(db, dep)) >= 3

\* C35: proxy operations are performed exactly when proxying is enabled.
\* Disabled: deploy is never at a proxy statement, no proxy channel is opened,
\* no Step 3 or 8 is written, the health check goes to the container's host
\* port and the URL returned and persisted is the host-port URL.  Enabled:
\* by the time the health check starts the proxy has been installed and
\* configured (Steps 3 and 8 committed), the health check goes to the proxy
\* port and the URL returned and persisted is the proxy's.
C35_ProxyOnlyWhenEnabled ==
  caller = "deploy" =>
    LET proxy_url == <<"http://", PUBLIC_IP, "/">>
        host_url == <<"http://", PUBLIC_IP, ":", ToString(DOCKER_HOST_PORT)>>
        url == IF cfg.ENABLE_NGINX THEN proxy_url ELSE host_url
    IN /\ ~cfg.ENABLE_NGINX =>
            /\ ip \in DOMAIN Program => ~Program[ip].ng
            /\ ssh["nginx"] = "none"
            /\ StepNumbers(sess, dep) \cap {3, 8} = {}
            /\ StepNumbers(db, dep) \cap {3, 8} = {}
            /\ hc.port \in {0, DOCKER_HOST_PORT}
       /\ cfg.ENABLE_NGINX =>
            /\ hc.port \in {0, NGINX_PORT}
            /\ hc.port # 0 => {3, 8} \subseteq StepNumbers(db, dep)
            /\ hc.port # 0 => ssh["nginx"] # "none"
       /\ result.success => result.url = url
       /\ Recorded /\ db.deps[dep].status = "success" =>
            db.deps[dep].deployment_url = url

C35_Witness ==
  /\ Returned /\ Recorded /\ cfg.ENABLE_NGINX /\ result.success
  /\ db.deps[dep].status = "success"
  /\ hc.port = NGINX_PORT
  /\ db.deps[dep].deployment_url = <<"http://", PUBLIC_IP, "/">>

\* C36: whenever deploy returns, on the success path or on a failure path,
\* no remote channel it opened (runtime, source-control or proxy client) is
\* still open.
C36_ChannelsClosedOnReturn ==
  Returned => \A c \in Clients : ssh[c] # "open"

\* C37: whenever deploy returns for a deployment whose record exists, the
\* result's success flag is true exactly when the persisted status of the
\* Deployment is success.
C37_ResultAgreesWithStatus ==
  Returned /\ Recorded =>
    (result.success <=> db.deps[dep].status = "success")

\* a Deployment of Application app has status success, or had it before a
\* later failure overwrote it (mark_failed keeps the deployment_url that
\* mark_success wrote)
EverSucceeded(app) ==
  \E d \in DOMAIN db.deps :
    /\ db.deps[d].application_id = app
    /\ db.deps[d].status = "success" \/ db.deps[d].deployment_url # NoMsg

\* C38: whenever deploy returns with success false for an Application none of
\* whose deployments has ever succeeded, the persisted status of that
\* Application is not active and its last_deployed_at is unset.
C38_FailedFirstDeploymentLeavesAppInactive ==
  Returned /\ ~result.success /\ application \in DOMAIN db.apps
    /\ ~EverSucceeded(application) =>
      /\ db.apps[application].status # "active"
      /\ db.apps[application].last_deployed_at = NoTime

====
